---- MODULE Spec2Model ----
(***************************************************************************)
(* State-machine model of the plumbing layer of the bot SDK               *)
(* (src/agent/sdk.ts, class BotSDK): the session socket and its           *)
(* handshake, the pending-action map, the reconnection controller with    *)
(* its backoff delays, the connection listeners, and the state cache with *)
(* its listeners and waitForCondition.                                     *)
(*                                                                         *)
(* Spec is the session with its actions; ConnSpec is the connection with  *)
(* the application's connection listeners; BackoffSpec is the reconnect   *)
(* controller alone, for every configured pair of delays; StateSpec is    *)
(* the state cache over a connection that opens and closes.               *)
(*                                                                         *)
(* HarnessSpec is the execution harness of the script runner (runScript   *)
(* in src/scripts/fishing-speedrun/lab_log.md) with its stall tracker,    *)
(* health monitor and time limit, the SDK being its environment;          *)
(* DeltaSpec is computeStateDelta of the same file on every pair of       *)
(* inventories.                                                            *)
(*                                                                         *)
(* InstrSpec is the instrumented bot of that harness                      *)
(* (createInstrumentedBot); RunnerSpec is runScript of the runner         *)
(* (src/unnamed/part_005) for every combination of its options; LruSpec   *)
(* is the LRU cache of the web client                                     *)
(* (src/webclient/src/datastruct/LruCache.ts) on its doubly linked list.  *)
(*                                                                         *)
(* Every handler of the class is one action.  JavaScript runs a handler   *)
(* to completion and then the promise continuations it released, so an    *)
(* action is the handler plus those continuations.                        *)
(*                                                                         *)
(* The environment is the WebSocket runtime (open, error and close        *)
(* events, timers) and the gateway (sdk_connected, sdk_action_result,     *)
(* sdk_error messages).  Per the WebSocket standard a message event is    *)
(* dispatched only while readyState is OPEN, and the close event is       *)
(* always a task of its own, later than the close() call.                 *)
(*                                                                         *)
(* Action ids are `act-<time>-<random>` in the source; they are modelled  *)
(* as fresh numbers (no collision).                                       *)
(***************************************************************************)
EXTENDS Integers, FiniteSets, Sequences, TLC

\* ------------------------------------------------------------------ bounds
MaxSockets == 2
MaxActions == 2
MaxListeners == 2
MaxPushes == 2
MaxTick == 2
MaxWaits == 1
MaxAttempt == 7

\* the defaults of reconnectBaseDelay and reconnectMaxDelay
defaultBaseDelay == 1000
defaultMaxDelay  == 30000

\* ---- the script harness, in units of one poll interval (500 ms)
MaxPos == 2
MaxTime == 7
\* sleep(500) of the supervision loop, the intervals of the stall check
\* (1000 ms) and of the health check (2000 ms), the tick-freeze threshold
\* (15000 ms), and the defaults of timeLimit (5 min) and stallTimeout (30 s)
pollInterval         == 1
stallCheckInterval   == 2
healthCheckInterval  == 4
tickFreezeThreshold  == 30
defaultTimeLimit     == 600
defaultStallTimeout  == 60
Positions == 1..MaxPos
\* the configurations the harness is explored with
TimeLimits    == {4, 5}
StallTimeouts == {1, 4}
\* config.stateSnapshotInterval, and the errors a routine throws
snapshotInterval == 3
RoutineErrors == {"Error", "StallError"}

\* ---- computeStateDelta
MaxSlots == 2
ItemNames == {"logs", "cooked fish"}
Counts == 0..3

\* ---- the instrumented bot
MaxBotCalls == 2
MaxClock == 2

\* the LRU cache: the largest capacity, the nodes the callers hold, the keys
MaxCapacity == 2
Nodes == {"n1", "n2", "n3"}
Keys == {"k1", "k2"}
head == "head"
null == "null"
Cells == Nodes \cup {head}

\* new DoublyLinkable(): next2 = this, prev2 = this
fresh == [next2 |-> [c \in Cells |-> c], prev2 |-> [c \in Cells |-> c]]

\* config.reconnectMaxRetries, a finite M
reconnectMaxRetries == 1

Sockets == 1..MaxSockets
Calls   == 1..MaxActions
\* the callbacks the application can pass to onConnectionStateChange
Listeners == 1..MaxListeners
\* an sdk_state message carries a world state, modelled by its tick number
Snapshots == 1..MaxTick
\* waitForCondition calls
Waits == 1..MaxWaits

\* message.result of an sdk_action_result; NoResult is the absent field
Results  == {"r1", "r2"}

\* values of config.reconnectBaseDelay and config.reconnectMaxDelay (ms)
Bases == {1, 3, 500, defaultBaseDelay}
Caps  == {1, 4, 16000, defaultMaxDelay}
NoResult == "none"

ConnectionState == {"disconnected", "connecting", "connected", "reconnecting"}

VARIABLES
    autoReconnect,          \* config.autoReconnect
    ws,                     \* this.ws: a socket, or 0 for null
    connectPromise,         \* this.connectPromise: socket whose promise, or 0
    connectionState,        \* this.connectionState
    reconnectAttempt,       \* this.reconnectAttempt
    reconnectTimer,         \* this.reconnectTimer is a live timer handle
    connectionListeners,    \* this.connectionListeners, in insertion order (the
                            \* listeners of the application)
    heard,                  \* the arguments of the last call each subscribed
                            \* listener received: <<state, attempt>>
    intentionalDisconnect,  \* this.intentionalDisconnect
    pendingActions,         \* this.pendingActions: actionId -> sendAction call
    readyState,             \* readyState of each socket ("NEW" = not created)
    connectTimeout,         \* the 10 s `timeout` timer of connect() is pending
    promise,                \* state of the promise created by connect() per socket
    checkConnected,         \* the checkConnected listener is registered (and the
                            \* socket can still deliver a message)
    identify,               \* sdk_connect messages written to the socket that the
                            \* gateway has not answered yet
    connAck,                \* sdk_connected was delivered on the socket
    nextSock,               \* number of the next socket to be constructed
    orphanTimers,           \* live reconnect timers whose handle was overwritten
    future,                 \* state of the promise returned by each sendAction call
    outcome,                \* the value or error the promise settled with
    actionId,               \* actionId of the call (0 before it is allocated)
    deadline,               \* the actionTimeout timer of the call is pending
    written,                \* the command of the call was written to a socket
    resolveCalls,           \* number of times resolve() ran for the call
    rejectCalls,            \* number of times reject()/throw ran for the call
    nextCall,               \* number of the next sendAction call
    nextId,                 \* next fresh actionId
    wasOpen,                \* history: the socket reached OPEN
    lastConnect,            \* how connect() returned, when the handler that ran
                            \* last was a connect() call of the application:
                            \* "early", "shared" or "new"; otherwise "none"
    lateMessage,            \* the actionId of the message, when the handler that
                            \* ran last was handleMessage for a result or error
                            \* whose actionId had no pending entry; otherwise 0
    disconnecting,          \* history: sockets that disconnect() closed and whose
                            \* close event is still to come
    sinceDisconnect,        \* history: disconnect() ran and connect() has not
                            \* been called by the application since
    lastReconnected,        \* the handler that ran last was checkConnected
                            \* ending a reconnection (state was 'reconnecting')
    reconnectBaseDelay,     \* config.reconnectBaseDelay
    reconnectMaxDelay,      \* config.reconnectMaxDelay
    delay,                  \* the delay of the reconnect timer scheduled last
                            \* (0 before the first)
    state,                  \* this.state: the cached snapshot, 0 for null
    stateListeners,         \* this.stateListeners in insertion order: l for the
                            \* application's listener l, -w for the listener of
                            \* waitForCondition call w
    pushes,                 \* history: the snapshots received, in arrival order
    threw,                  \* history: the application listener that threw
                            \* during the last push (0 if none did)
    received,               \* the snapshots each application listener was called
                            \* with since it subscribed
    observed,               \* what getState() returned inside the last call of
                            \* each application listener
    predicate,              \* the predicate of each waitForCondition call, as
                            \* the set of snapshots it holds for
    condFuture,             \* state of the promise of each waitForCondition call
    condValue,              \* the snapshot it resolved with
    condTimer,              \* its timeout timer is pending
    condPath,               \* how the call went: "immediate" or "listening"
    nextWait,               \* number of the next waitForCondition call
    \* ---- the script harness (runScript)
    timeLimit,              \* config.timeLimit
    stallTimeout,           \* config.stallTimeout
    now,                    \* time since the launch
    due,                    \* the timers that are due at `now` and have not run
    phase,                  \* "start", "launching", "supervising" or "ended"
    script,                 \* the routine: "notStarted", "running", "done", "threw"
    stallDetected,
    timeLimitReached,
    disconnectDetected,
    tickFreezeDetected,
    lastProgressTime,       \* ProgressTracker.lastProgressTime
    lastPlayerPos,          \* ProgressTracker.lastPlayerX/Z (0: the initial 0,0)
    playerPos,              \* position of the snapshot sdk.getState() returns
                            \* (0: no snapshot)
    lastStateUpdateTime,    \* ConnectionHealthMonitor.lastStateUpdateTime
    lastTick,               \* ConnectionHealthMonitor.lastTick
    runOutcome,             \* outcome of the run record ("none": not set)
    outcomeDetail,          \* "Disconnect" if the message starts with
                            \* 'Disconnect:', else "other"
    setOutcomeCalls,        \* calls of recorder.setOutcome
    stopRunCalls,           \* calls of recorder.stopRun
    raisedInRoutine,        \* the error raised into the routine, "none" if none
    active,                 \* the intervals and the timer that are running
    subscribed,             \* the SDK subscriptions of the harness
    consoleCaptured,        \* the console functions are replaced
    \* what has happened in the run so far
    occurred,               \* the abort conditions, in the order they arose
    steady,                 \* since the launch: the position is known and
                            \* constant, every push has a new tick, no
                            \* progress is marked, the connection is healthy
    walking,                \* since the launch: a push in every poll interval,
                            \* each at another position than the one before
    pushedSince,            \* a push arrived since the clock last advanced
    frozen,                 \* since the launch: no push with a new tick, and
                            \* the connection was never reported disconnected
    \* ---- computeStateDelta
    prevInventory,          \* prev.inventory
    currInventory,          \* curr.inventory
    itemsGained,            \* delta.itemsGained
    itemsLost,              \* delta.itemsLost
    deltaComputed,          \* computeStateDelta has returned
    \* ---- the instrumented bot (createInstrumentedBot)
    callStatus,             \* "running" while a method of the bot is awaited
    callArg,                \* its argument
    startTime,              \* Date.now() when it was called
    clock,                  \* Date.now()
    actionLog,              \* the calls of recorder.logAction:
                            \* <<argument, result or error, duration>>
    progressMarks,          \* calls of onProgress
    delivered,              \* what the routine got from each call
    botCalls,               \* the calls that settled: <<argument, kind,
                            \* value, start, end>>
    \* ---- the script runner (runScript of src/unnamed/part_005)
    optConnection,          \* options.connection is given
    optBotName,             \* options.botName is given
    optAutoConnect,         \* options.autoConnect
    optDisconnectAfter,     \* options.disconnectAfter
    existing,               \* `connections` holds a connected sdk for botName
    optTimeout,             \* options.timeout is given (and not 0)
    runnerPhase,            \* "start", "running" or "done"
    managedConnection,
    scriptStarted,          \* script(ctx) was called
    scriptEnd,              \* how the routine ended: <<kind, value>>
    setupFailed,            \* no connection could be obtained
    runResult,              \* the RunResult returned
    runnerRejected,         \* runScript rejected
    sdkDisconnected,        \* the runner called sdk.disconnect()
    \* ---- the LRU cache (src/webclient/src/datastruct/LruCache.ts)
    capacity,
    available,
    links,                  \* next2 and prev2 of every DoublyLinkable
    hashtable,              \* the key each node is stored under, or null
    lastOp                  \* the last operation, with the history list and
                            \* `available` it found

sdkVars    == <<ws, connectPromise, connectionState, reconnectAttempt,
                reconnectTimer, intentionalDisconnect, orphanTimers,
                connectionListeners, heard>>
sockVars   == <<readyState, connectTimeout, promise, checkConnected,
                identify, connAck, nextSock>>
actionVars == <<pendingActions, future, outcome, actionId, deadline,
                resolveCalls, rejectCalls, nextId, written>>
histVars   == <<lastConnect, lateMessage, disconnecting, sinceDisconnect,
                lastReconnected>>
delayConfig == <<reconnectBaseDelay, reconnectMaxDelay>>
pushVars   == <<state, stateListeners, pushes, threw, received, observed>>
waitVars   == <<predicate, condFuture, condValue, condTimer, condPath,
                nextWait>>
coreVars   == <<autoReconnect, sdkVars, sockVars, actionVars, nextCall,
                wasOpen, histVars>>
harnessVars == <<timeLimit, stallTimeout, now, due, phase, script,
                 stallDetected, timeLimitReached, disconnectDetected,
                 tickFreezeDetected, lastProgressTime, lastPlayerPos,
                 playerPos, lastStateUpdateTime, lastTick, runOutcome,
                 outcomeDetail, setOutcomeCalls, stopRunCalls,
                 raisedInRoutine, active, subscribed, consoleCaptured>>
scenarioVars == <<occurred, steady, walking, pushedSince, frozen>>
deltaVars  == <<prevInventory, currInventory, itemsGained, itemsLost,
                deltaComputed>>
instrVars  == <<callStatus, callArg, startTime, clock, actionLog,
                progressMarks, delivered, botCalls>>
options    == <<optConnection, optBotName, optAutoConnect,
                optDisconnectAfter, optTimeout>>
runnerVars == <<options, existing, runnerPhase, managedConnection, scriptStarted,
                scriptEnd, setupFailed, runResult, runnerRejected,
                sdkDisconnected>>
lruVars    == <<capacity, available, links, hashtable, lastOp>>
otherVars  == <<instrVars, runnerVars, lruVars>>
apartVars  == <<delayConfig, harnessVars, scenarioVars, deltaVars, otherVars>>
sdkAll     == <<coreVars, delayConfig, delay, pushVars, waitVars>>
vars == <<coreVars, apartVars, delay, pushVars, waitVars>>

\* ----------------------------------------------------------- pure helpers

\* isConnected(): this.ws !== null && this.ws.readyState === WebSocket.OPEN
isConnectedIn(w, rs) == w # 0 /\ rs[w] = "OPEN"
isConnected == isConnectedIn(ws, readyState)

\* WebSocket.close(): CONNECTING/OPEN become CLOSING, otherwise no effect
closeSocket(rs, s) ==
    IF s # 0 /\ rs[s] \in {"CONNECTING", "OPEN"}
    THEN [rs EXCEPT ![s] = "CLOSING"] ELSE rs

\* (mutant) sendAction registers the action whatever the socket's state
mayRegisterAlways(w, rs) == TRUE

\* the check of sendAction before it registers (sdk.ts 396-398)
mayRegister(w, rs) == isConnectedIn(w, rs)

\* send() (sdk.ts 714-718): the message is written only if the socket is
\* open, otherwise it is dropped
send(w, rs) == isConnectedIn(w, rs)

\* (mutant) sendAction awaits the connection in every state but 'connected'
awaitsAlways == connectionState # "connected"

\* the condition of sendAction for awaiting waitForConnection (sdk.ts 391)
awaitsReconnection == connectionState = "reconnecting"

\* what a listener has before its first call
NotHeard == <<"none", 0>>

Range(q) == {q[i] : i \in DOMAIN q}

\* (mutant) no try/catch: the loop ends at the listener that throws
calledUntilThrow(L, thrower) ==
    {L[i] : i \in {j \in DOMAIN L : \A k \in 1..(j - 1) : L[k] # thrower}}

\* the listeners the loop of setConnectionState calls when `thrower` throws
\* (sdk.ts 157-163): the exception is caught and logged
called(L, thrower) == Range(L)

\* setConnectionState(state, attempt) (sdk.ts 155-164); attempt is 0 for
\* the calls that pass none.  Any one listener may throw.
setConnectionState(st, att) ==
    /\ connectionState' = st
    /\ \E thrower \in Listeners \cup {0} :
          heard' = [l \in Listeners |->
                      IF l \in called(connectionListeners, thrower)
                      THEN <<st, att>> ELSE heard[l]]

Unsettled == {"waiting", "pending"}
Waiting   == {c \in Calls : future[c] = "waiting"}
PendingCalls == {pendingActions[i] : i \in DOMAIN pendingActions}

\* the object after construction, but for the two delays of the config
InitSdk ==
    /\ autoReconnect \in BOOLEAN
    /\ ws = 0 /\ connectPromise = 0
    /\ connectionState = "disconnected"
    /\ reconnectAttempt = 0
    /\ reconnectTimer = FALSE
    /\ connectionListeners = <<>>
    /\ heard = [l \in Listeners |-> NotHeard]
    /\ intentionalDisconnect = FALSE
    /\ pendingActions = <<>>
    /\ readyState = [s \in Sockets |-> "NEW"]
    /\ connectTimeout = [s \in Sockets |-> FALSE]
    /\ promise = [s \in Sockets |-> "none"]
    /\ checkConnected = [s \in Sockets |-> FALSE]
    /\ identify = [s \in Sockets |-> 0]
    /\ connAck = [s \in Sockets |-> FALSE]
    /\ nextSock = 1
    /\ orphanTimers = 0
    /\ future = [c \in Calls |-> "idle"]
    /\ outcome = [c \in Calls |-> "none"]
    /\ actionId = [c \in Calls |-> 0]
    /\ deadline = [c \in Calls |-> FALSE]
    /\ written = [c \in Calls |-> FALSE]
    /\ resolveCalls = [c \in Calls |-> 0]
    /\ rejectCalls = [c \in Calls |-> 0]
    /\ nextCall = 1
    /\ nextId = 1
    /\ wasOpen = [s \in Sockets |-> FALSE]
    /\ lastConnect = "none"
    /\ lateMessage = 0
    /\ disconnecting = {}
    /\ sinceDisconnect = FALSE
    /\ lastReconnected = FALSE
    /\ delay = 0
    /\ state = 0
    /\ stateListeners = <<>>
    /\ pushes = <<>>
    /\ threw = 0
    /\ received = [l \in Listeners |-> <<>>]
    /\ observed = [l \in Listeners |-> 0]
    /\ predicate = [w \in Waits |-> {}]
    /\ condFuture = [w \in Waits |-> "idle"]
    /\ condValue = [w \in Waits |-> 0]
    /\ condTimer = [w \in Waits |-> FALSE]
    /\ condPath = [w \in Waits |-> "none"]
    /\ nextWait = 1

\* the default delays (sdk.ts 64-65)
\* the harness before execute() runs, configured with tl and st
InitHarness(tl, st) ==
    /\ timeLimit = tl /\ stallTimeout = st
    /\ now = 0 /\ due = {}
    /\ phase = "start" /\ script = "notStarted"
    /\ stallDetected = FALSE /\ timeLimitReached = FALSE
    /\ disconnectDetected = FALSE /\ tickFreezeDetected = FALSE
    /\ lastProgressTime = 0 /\ lastPlayerPos = 0 /\ playerPos = 0
    /\ lastStateUpdateTime = 0 /\ lastTick = 0
    /\ runOutcome = "none" /\ outcomeDetail = "none"
    /\ setOutcomeCalls = 0 /\ stopRunCalls = 0
    /\ raisedInRoutine = "none"
    /\ active = {} /\ subscribed = {} /\ consoleCaptured = FALSE
    /\ occurred = <<>>
    /\ steady = FALSE /\ walking = FALSE /\ pushedSince = FALSE
    /\ frozen = FALSE

\* no call of computeStateDelta has been made; the snapshots are prev, curr
InitDelta(prev, curr) ==
    /\ prevInventory = prev
    /\ currInventory = curr
    /\ itemsGained = <<>>
    /\ itemsLost = <<>>
    /\ deltaComputed = FALSE

\* no method of the instrumented bot has been called
InitInstr ==
    /\ callStatus = "idle"
    /\ callArg = <<"string", "">>
    /\ startTime = 0
    /\ clock = 0
    /\ actionLog = <<>>
    /\ progressMarks = 0
    /\ delivered = <<>>
    /\ botCalls = <<>>

\* runScript has been called with these options
InitRunner(c, b, a, d, t, e) ==
    /\ optConnection = c /\ optBotName = b /\ optAutoConnect = a
    /\ optDisconnectAfter = d /\ optTimeout = t
    /\ existing = e
    /\ runnerPhase = "start"
    /\ managedConnection = FALSE
    /\ scriptStarted = FALSE
    /\ scriptEnd = <<"none", "undefined">>
    /\ setupFailed = FALSE
    /\ runResult = [success |-> FALSE, result |-> "undefined", error |-> "none"]
    /\ runnerRejected = FALSE
    /\ sdkDisconnected = FALSE

\* new LruCache(size)
InitLru(size) ==
    /\ capacity = size
    /\ available = size
    /\ links = fresh
    /\ hashtable = [n \in Nodes |-> null]
    /\ lastOp = [op |-> "none", key |-> null, node |-> null,
                 before |-> <<>>, availableBefore |-> size]

\* the parts of the program a specification does not exercise
InitOther ==
    /\ InitInstr
    /\ InitRunner(FALSE, FALSE, TRUE, FALSE, FALSE, FALSE)
    /\ InitLru(1)

Init ==
    /\ InitSdk
    /\ reconnectBaseDelay = defaultBaseDelay
    /\ reconnectMaxDelay = defaultMaxDelay
    /\ InitHarness(defaultTimeLimit, defaultStallTimeout)
    /\ InitDelta(<<>>, <<>>)
    /\ InitOther

\* ------------------------------------------------- promises of sendAction

\* the connection listener of waitForConnection (sdk.ts 254-265) and the rest
\* of sendAction after `await this.waitForConnection()` (sdk.ts 396-416):
\* which of the waiting calls go on to register, once `st` is broadcast and
\* the session socket is w with ready states rs
resumed(st, w, rs) ==
    IF st = "connected" /\ mayRegister(w, rs) THEN Waiting ELSE {}
released(st) ==
    IF st \in {"connected", "disconnected"} THEN Waiting ELSE {}
waitError(st) ==
    IF st = "connected" THEN "Not connected" ELSE "Connection failed"

\* Effect of one handler on the action promises.
\*   P    the pending map as the handler leaves it
\*   rej  calls the handler rejects, with error why
\*   clr  calls whose deadline timer it clears (or that has just fired)
\*   st   the state it passes to setConnectionState ("" if it does not)
\*   w,rs this.ws and the ready states when the handler returns
settleActions(P, rej, why, clr, st, w, rs) ==
    LET reg  == resumed(st, w, rs)
        rejW == released(st) \ reg
        R    == rej \cup rejW
        first(c) == c \in R /\ future[c] \in Unsettled
        newId(c) == nextId + Cardinality({d \in reg : d < c})
    IN  /\ future' = [c \in Calls |->
                        IF first(c) THEN "rejected"
                        ELSE IF c \in reg THEN "pending" ELSE future[c]]
        /\ outcome' = [c \in Calls |->
                        IF first(c)
                        THEN (IF c \in rej THEN why ELSE waitError(st))
                        ELSE outcome[c]]
        /\ rejectCalls' = [c \in Calls |->
                        IF c \in R THEN rejectCalls[c] + 1 ELSE rejectCalls[c]]
        /\ resolveCalls' = resolveCalls
        /\ actionId' = [c \in Calls |->
                        IF c \in reg THEN newId(c) ELSE actionId[c]]
        /\ deadline' = [c \in Calls |->
                        IF c \in reg THEN TRUE
                        ELSE IF c \in clr THEN FALSE ELSE deadline[c]]
        /\ written' = [c \in Calls |->
                        IF c \in reg THEN send(w, rs) ELSE written[c]]
        /\ pendingActions' =
                [i \in DOMAIN P \cup {newId(c) : c \in reg} |->
                    IF i \in DOMAIN P THEN P[i]
                    ELSE CHOOSE c \in reg : newId(c) = i]
        /\ nextId' = nextId + Cardinality(reg)

\* ------------------------------------------------------------- connect()

\* the three ways connect() returns (sdk.ts 73-79, 89-152)
connectResult ==
    IF isConnected THEN "early"
    ELSE IF connectPromise # 0 THEN "shared" ELSE "new"

\* connect(); rt and ot are the reconnect timers as the caller leaves them
connect(rt, ot) ==
    /\ reconnectTimer' = rt
    /\ orphanTimers' = ot
    /\ UNCHANGED <<reconnectAttempt, actionVars, identify, connAck,
                   connectionListeners>>
    /\ IF connectResult # "new"
       THEN UNCHANGED <<ws, connectPromise, connectionState, heard,
                        intentionalDisconnect, readyState, connectTimeout,
                        promise, checkConnected, nextSock>>
       ELSE /\ nextSock <= MaxSockets
            /\ intentionalDisconnect' = FALSE
            /\ IF connectionState = "reconnecting"
               THEN UNCHANGED <<connectionState, heard>>
               ELSE setConnectionState("connecting", 0)
            /\ ws' = nextSock
            /\ connectPromise' = nextSock
            /\ readyState' = [readyState EXCEPT ![nextSock] = "CONNECTING"]
            /\ connectTimeout' = [connectTimeout EXCEPT ![nextSock] = TRUE]
            /\ promise' = [promise EXCEPT ![nextSock] = "pending"]
            /\ checkConnected' = [checkConnected EXCEPT ![nextSock] = TRUE]
            /\ nextSock' = nextSock + 1

\* The application calls connect().  A call that finds the socket open
\* returns at once (sdk.ts 73-75), whether or not the identify was
\* acknowledged.
Connect ==
    /\ connect(reconnectTimer, orphanTimers)
    /\ lastConnect' = connectResult
    /\ sinceDisconnect' = FALSE
    /\ lateMessage' = 0
    /\ lastReconnected' = FALSE
    /\ UNCHANGED <<apartVars, delay, pushVars, waitVars>>
    /\ UNCHANGED <<autoReconnect, nextCall, wasOpen, disconnecting>>

\* The reconnect timer callback (sdk.ts 185-194): clears the handle, then
\* connect().  A timer whose handle was overwritten by a later
\* scheduleReconnect is still live and runs the same callback.
ReconnectTimerFire ==
    /\ \E orphan \in BOOLEAN :
          /\ IF orphan THEN orphanTimers > 0 ELSE reconnectTimer
          /\ connect(FALSE,
                     IF orphan /\ ~reconnectTimer
                     THEN orphanTimers - 1 ELSE orphanTimers)
    /\ UNCHANGED <<autoReconnect, nextCall, wasOpen, disconnecting, sinceDisconnect>>
    /\ lastConnect' = "none"
    /\ lateMessage' = 0
    /\ lastReconnected' = FALSE
    /\ UNCHANGED <<apartVars, delay, pushVars, waitVars>>

\* ws.onopen (sdk.ts 98-106): clearTimeout(timeout), then this.send(sdk_connect),
\* which writes to this.ws if that socket is open (sdk.ts 714-718)
OnOpen(s) ==
    /\ readyState[s] = "CONNECTING"
    /\ readyState' = [readyState EXCEPT ![s] = "OPEN"]
    /\ connectTimeout' = [connectTimeout EXCEPT ![s] = FALSE]
    /\ identify' = IF isConnectedIn(ws, readyState')
                   THEN [identify EXCEPT ![ws] = @ + 1] ELSE identify
    /\ wasOpen' = [wasOpen EXCEPT ![s] = TRUE]
    /\ UNCHANGED <<autoReconnect, sdkVars, promise, checkConnected, connAck,
                   nextSock, actionVars, nextCall, disconnecting, sinceDisconnect>>
    /\ lastConnect' = "none"
    /\ lateMessage' = 0
    /\ lastReconnected' = FALSE
    /\ UNCHANGED <<apartVars, delay, pushVars, waitVars>>

\* The `timeout` timer of connect() (sdk.ts 93-96): reject, this.ws?.close()
ConnectTimeout(s) ==
    /\ connectTimeout[s]
    /\ connectTimeout' = [connectTimeout EXCEPT ![s] = FALSE]
    /\ promise' = [promise EXCEPT ![s] = IF @ = "pending" THEN "rejected" ELSE @]
    /\ readyState' = closeSocket(readyState, ws)
    /\ UNCHANGED <<autoReconnect, sdkVars, checkConnected, identify, connAck,
                   nextSock, actionVars, nextCall, wasOpen, disconnecting, sinceDisconnect>>
    /\ lastConnect' = "none"
    /\ lateMessage' = 0
    /\ lastReconnected' = FALSE
    /\ UNCHANGED <<apartVars, delay, pushVars, waitVars>>

\* (mutant) checkConnected leaves the attempt counter as it is
connectedAttemptKeep == reconnectAttempt

\* this.reconnectAttempt = 0 of checkConnected (sdk.ts 143)
connectedAttempt == 0

\* An sdk_connected message on socket s: handleMessage ignores the type;
\* checkConnected (sdk.ts 137-148) removes itself from this.ws, resets the
\* attempt counter, broadcasts 'connected' and resolves the promise.
OnConnected(s) ==
    /\ readyState[s] = "OPEN"
    /\ identify[s] > 0
    /\ identify' = [identify EXCEPT ![s] = @ - 1]
    /\ connAck' = [connAck EXCEPT ![s] = TRUE]
    /\ UNCHANGED <<autoReconnect, nextCall, wasOpen, disconnecting, sinceDisconnect>>
    /\ lastConnect' = "none"
    /\ lateMessage' = 0
    /\ lastReconnected' = (checkConnected[s] /\ connectionState = "reconnecting")
    /\ UNCHANGED <<apartVars, delay, pushVars, waitVars>>
    /\ IF checkConnected[s]
       THEN /\ checkConnected' = IF ws = s
                                 THEN [checkConnected EXCEPT ![s] = FALSE]
                                 ELSE checkConnected
            /\ reconnectAttempt' = connectedAttempt
            /\ setConnectionState("connected", 0)
            /\ promise' = [promise EXCEPT ![s] =
                              IF @ = "pending" THEN "resolved" ELSE @]
            /\ settleActions(pendingActions, {}, "", {}, "connected",
                             ws, readyState)
            /\ UNCHANGED <<ws, connectPromise, reconnectTimer,
                           intentionalDisconnect, orphanTimers, readyState,
                           connectTimeout, nextSock, connectionListeners>>
       ELSE UNCHANGED <<sdkVars, readyState, connectTimeout, promise,
                        checkConnected, nextSock, actionVars>>

\* ------------------------------------------------------- reconnect delay

\* Math.pow(2, k) for an integer k >= 0
RECURSIVE pow2(_)
pow2(k) == IF k = 0 THEN 1 ELSE 2 * pow2(k - 1)

\* Math.min
Min(a, b) == IF a <= b THEN a ELSE b

\* (mutant) the exponent is the attempt number itself
backoffExponentOff(attempt) == attempt

\* the exponent of the delay computation (sdk.ts 179)
backoffExponent(attempt) == attempt - 1

\* the delay scheduleReconnect computes for attempt number `attempt`
\* (sdk.ts 177-181)
backoff(base, cap, attempt) ==
    Min(base * pow2(backoffExponent(attempt)), cap)

\* ------------------------------------------------ close, error, disconnect

\* the branch of ws.onclose (sdk.ts 124-128) and scheduleReconnect's check
\* (sdk.ts 168-175): the state the close handler broadcasts
willReconnect ==
    autoReconnect /\ ~intentionalDisconnect
        /\ reconnectAttempt < reconnectMaxRetries
closeState == IF willReconnect THEN "reconnecting" ELSE "disconnected"

\* (mutant) the close handler rejects the entries but does not clear the map
closeKeep == pendingActions

\* this.pendingActions.clear() of ws.onclose (sdk.ts 121)
closeClear == <<>>

\* ws.onclose (sdk.ts 112-129), for the close event of ANY socket the session
\* created: the handler refers to this.ws and this.pendingActions, not to
\* the socket that closed.
onclose ==
    /\ connectPromise' = 0
    /\ ws' = 0
    /\ settleActions(closeClear, PendingCalls, "Connection closed", PendingCalls,
                     closeState, 0, readyState')
    /\ setConnectionState(closeState,
                          IF willReconnect THEN reconnectAttempt + 1 ELSE 0)
    /\ reconnectAttempt' = IF willReconnect THEN reconnectAttempt + 1
                           ELSE reconnectAttempt
    /\ reconnectTimer' = (willReconnect \/ reconnectTimer)
    /\ orphanTimers' = IF willReconnect /\ reconnectTimer
                       THEN orphanTimers + 1 ELSE orphanTimers
    /\ delay' = IF willReconnect
                THEN backoff(reconnectBaseDelay, reconnectMaxDelay,
                             reconnectAttempt + 1)
                ELSE delay
    /\ UNCHANGED <<intentionalDisconnect, connectionListeners>>

\* A closed socket delivers no further message: what the gateway still owed
\* on it is lost and its message listeners are dead.
gone(s) ==
    /\ identify' = [identify EXCEPT ![s] = 0]
    /\ checkConnected' = [checkConnected EXCEPT ![s] = FALSE]
    /\ disconnecting' = disconnecting \ {s}

\* The close event of socket s, not preceded by an error event: an
\* established connection that was closed by either side or was lost.
OnClose(s) ==
    /\ readyState[s] \in {"OPEN", "CLOSING"}
    /\ wasOpen[s]
    /\ readyState' = [readyState EXCEPT ![s] = "CLOSED"]
    /\ gone(s)
    /\ onclose
    /\ UNCHANGED <<autoReconnect, connectTimeout, promise, connAck, nextSock,
                   nextCall, wasOpen, sinceDisconnect>>
    /\ lastConnect' = "none"
    /\ lateMessage' = 0
    /\ lastReconnected' = FALSE
    /\ UNCHANGED <<apartVars, pushVars, waitVars>>

\* The connection of socket s fails (always so when it is closed before it
\* was established): ws.onerror (sdk.ts 131-134) clears the timeout and
\* rejects the promise, then the close event follows.
OnError(s) ==
    /\ readyState[s] \in {"CONNECTING", "OPEN", "CLOSING"}
    /\ readyState' = [readyState EXCEPT ![s] = "CLOSED"]
    /\ connectTimeout' = [connectTimeout EXCEPT ![s] = FALSE]
    /\ promise' = [promise EXCEPT ![s] = IF @ = "pending" THEN "rejected" ELSE @]
    /\ gone(s)
    /\ onclose
    /\ UNCHANGED <<autoReconnect, connAck, nextSock, nextCall, wasOpen,
                   sinceDisconnect>>
    /\ lastConnect' = "none"
    /\ lateMessage' = 0
    /\ lastReconnected' = FALSE
    /\ UNCHANGED <<apartVars, pushVars, waitVars>>

\* disconnect() (sdk.ts 197-214)
Disconnect ==
    /\ intentionalDisconnect' = TRUE
    /\ reconnectTimer' = FALSE
    /\ readyState' = closeSocket(readyState, ws)
    /\ ws' = 0
    /\ connectPromise' = 0
    /\ reconnectAttempt' = 0
    /\ setConnectionState("disconnected", 0)
    /\ settleActions(pendingActions, {}, "", {}, "disconnected", 0, readyState')
    /\ sinceDisconnect' = TRUE
    /\ disconnecting' = IF ws # 0 /\ readyState[ws] # "CLOSED"
                        THEN disconnecting \cup {ws} ELSE disconnecting
    /\ lastConnect' = "none"
    /\ lateMessage' = 0
    /\ lastReconnected' = FALSE
    /\ UNCHANGED <<apartVars, delay, pushVars, waitVars>>
    /\ UNCHANGED <<autoReconnect, orphanTimers, connectTimeout, promise,
                   checkConnected, identify, connAck, nextSock, nextCall,
                   wasOpen, connectionListeners>>

\* ------------------------------------------------------------ sendAction

\* sendAction (sdk.ts 389-417).  In state 'reconnecting' it awaits
\* waitForConnection (sdk.ts 243-267), which returns at once when
\* isConnected(); then it throws unless isConnected(), else it allocates the
\* id, starts the deadline timer, registers the entry and writes the command.
SendAction ==
    /\ nextCall <= MaxActions
    /\ nextCall' = nextCall + 1
    /\ UNCHANGED <<autoReconnect, sdkVars, sockVars, wasOpen, disconnecting, sinceDisconnect,
                   resolveCalls>>
    /\ lastConnect' = "none"
    /\ lateMessage' = 0
    /\ lastReconnected' = FALSE
    /\ UNCHANGED <<apartVars, delay, pushVars, waitVars>>
    /\ IF awaitsReconnection /\ ~isConnected
       THEN /\ future' = [future EXCEPT ![nextCall] = "waiting"]
            /\ UNCHANGED <<pendingActions, outcome, actionId, deadline,
                           rejectCalls, nextId, written>>
       ELSE IF ~mayRegister(ws, readyState)
       THEN /\ future' = [future EXCEPT ![nextCall] = "rejected"]
            /\ outcome' = [outcome EXCEPT ![nextCall] = "Not connected"]
            /\ rejectCalls' = [rejectCalls EXCEPT ![nextCall] = @ + 1]
            /\ UNCHANGED <<pendingActions, actionId, deadline, nextId,
                           written>>
       ELSE /\ future' = [future EXCEPT ![nextCall] = "pending"]
            /\ actionId' = [actionId EXCEPT ![nextCall] = nextId]
            /\ deadline' = [deadline EXCEPT ![nextCall] = TRUE]
            /\ written' = [written EXCEPT ![nextCall] = send(ws, readyState)]
            /\ pendingActions' =
                  [i \in DOMAIN pendingActions \cup {nextId} |->
                      IF i = nextId THEN nextCall ELSE pendingActions[i]]
            /\ nextId' = nextId + 1
            /\ UNCHANGED <<outcome, rejectCalls>>

\* this.pendingActions.delete(id)
without(P, id) == [i \in DOMAIN P \ {id} |-> P[i]]

\* (mutant) the deadline callback rejects but leaves the entry in the map
timeoutKeep(c) == pendingActions

\* the deadline callback of sendAction (sdk.ts 403-406): the map it leaves
timeoutDelete(c) == without(pendingActions, actionId[c])

\* The deadline timer of call c fires.
ActionTimeout(c) ==
    /\ deadline[c]
    /\ deadline' = [deadline EXCEPT ![c] = FALSE]
    /\ pendingActions' = timeoutDelete(c)
    /\ future' = [future EXCEPT ![c] = IF @ \in Unsettled THEN "rejected" ELSE @]
    /\ outcome' = [outcome EXCEPT ![c] =
                      IF future[c] \in Unsettled THEN "Action timed out" ELSE @]
    /\ rejectCalls' = [rejectCalls EXCEPT ![c] = @ + 1]
    /\ UNCHANGED <<autoReconnect, sdkVars, sockVars, actionId, resolveCalls,
                   nextId, nextCall, wasOpen, disconnecting, sinceDisconnect,
                   written>>
    /\ lastConnect' = "none"
    /\ lateMessage' = 0
    /\ lastReconnected' = FALSE
    /\ UNCHANGED <<apartVars, delay, pushVars, waitVars>>

\* The timer of waitForConnection fires (sdk.ts 249-252): the wait rejects
\* and sendAction throws.
WaitTimeout(c) ==
    /\ future[c] = "waiting"
    /\ future' = [future EXCEPT ![c] = "rejected"]
    /\ outcome' = [outcome EXCEPT ![c] = "waitForConnection timed out"]
    /\ rejectCalls' = [rejectCalls EXCEPT ![c] = @ + 1]
    /\ UNCHANGED <<autoReconnect, sdkVars, sockVars, pendingActions, actionId,
                   deadline, resolveCalls, nextId, nextCall, wasOpen,
                   disconnecting, sinceDisconnect, written>>
    /\ lastConnect' = "none"
    /\ lateMessage' = 0
    /\ lastReconnected' = FALSE
    /\ UNCHANGED <<apartVars, delay, pushVars, waitVars>>

\* --------------------------------------------------------- handleMessage

\* (mutant) a result is matched to the oldest pending action, not by id
lookupOldest(id) ==
    IF id \in DOMAIN pendingActions
    THEN CHOOSE i \in DOMAIN pendingActions :
            \A j \in DOMAIN pendingActions : i <= j
    ELSE 0

\* this.pendingActions.get(message.actionId): the id whose entry is used,
\* 0 when there is none
lookup(id) == IF id \in DOMAIN pendingActions THEN id ELSE 0

\* (mutant) the result branch forgets clearTimeout
resultKeepTimeout(c) == deadline

\* clearTimeout(pending.timeout) of the sdk_action_result branch
resultClearTimeout(c) == [deadline EXCEPT ![c] = FALSE]

\* An sdk_action_result message with actionId id and result r
\* (sdk.ts 739-750).
OnActionResult(s, id, r) ==
    /\ readyState[s] = "OPEN"
    /\ id \in 1..(nextId - 1)
    /\ UNCHANGED <<autoReconnect, sdkVars, sockVars, actionId, nextId,
                   nextCall, wasOpen, disconnecting, sinceDisconnect, written>>
    /\ lastConnect' = "none"
    /\ lateMessage' = IF id \in DOMAIN pendingActions THEN 0 ELSE id
    /\ lastReconnected' = FALSE
    /\ UNCHANGED <<apartVars, delay, pushVars, waitVars>>
    /\ LET p == lookup(id) IN
       IF p # 0
       THEN LET c == pendingActions[p] IN
            /\ deadline' = resultClearTimeout(c)
            /\ pendingActions' = without(pendingActions, p)
            /\ IF r # NoResult
               THEN /\ future' = [future EXCEPT ![c] =
                                    IF @ \in Unsettled THEN "resolved" ELSE @]
                    /\ outcome' = [outcome EXCEPT ![c] =
                                    IF future[c] \in Unsettled THEN r ELSE @]
                    /\ resolveCalls' = [resolveCalls EXCEPT ![c] = @ + 1]
                    /\ UNCHANGED rejectCalls
               ELSE /\ future' = [future EXCEPT ![c] =
                                    IF @ \in Unsettled THEN "rejected" ELSE @]
                    /\ outcome' = [outcome EXCEPT ![c] =
                                    IF future[c] \in Unsettled
                                    THEN "No result in action response" ELSE @]
                    /\ rejectCalls' = [rejectCalls EXCEPT ![c] = @ + 1]
                    /\ UNCHANGED resolveCalls
       ELSE UNCHANGED <<pendingActions, future, outcome, deadline,
                        resolveCalls, rejectCalls>>

\* (mutant) the error branch forgets clearTimeout
errorKeepTimeout(c) == deadline

\* clearTimeout(pending.timeout) of the sdk_error branch
errorClearTimeout(c) == [deadline EXCEPT ![c] = FALSE]

\* An sdk_error message, with actionId id or without one (id = 0)
\* (sdk.ts 752-762).
OnSdkError(s, id) ==
    /\ readyState[s] = "OPEN"
    /\ id \in 0..(nextId - 1)
    /\ UNCHANGED <<autoReconnect, sdkVars, sockVars, actionId, nextId,
                   nextCall, wasOpen, disconnecting, sinceDisconnect,
                   resolveCalls, written>>
    /\ lastConnect' = "none"
    /\ lateMessage' = IF id \in DOMAIN pendingActions THEN 0 ELSE id
    /\ lastReconnected' = FALSE
    /\ UNCHANGED <<apartVars, delay, pushVars, waitVars>>
    /\ IF id # 0 /\ id \in DOMAIN pendingActions
       THEN LET c == pendingActions[id] IN
            /\ deadline' = errorClearTimeout(c)
            /\ pendingActions' = without(pendingActions, id)
            /\ future' = [future EXCEPT ![c] =
                            IF @ \in Unsettled THEN "rejected" ELSE @]
            /\ outcome' = [outcome EXCEPT ![c] =
                            IF future[c] \in Unsettled THEN "server error" ELSE @]
            /\ rejectCalls' = [rejectCalls EXCEPT ![c] = @ + 1]
       ELSE UNCHANGED <<pendingActions, future, outcome, deadline,
                        rejectCalls>>

\* ------------------------------------------------ connection listeners

\* the three marks of the handler that ran last, for a handler that is
\* none of those they record
noMarks ==
    /\ lastConnect' = "none"
    /\ lateMessage' = 0
    /\ lastReconnected' = FALSE

\* onConnectionStateChange(listener) (sdk.ts 233-236) for a listener that is
\* not subscribed
OnConnectionStateChange(l) ==
    /\ l \notin Range(connectionListeners)
    /\ connectionListeners' = Append(connectionListeners, l)
    /\ heard' = [heard EXCEPT ![l] = NotHeard]
    /\ noMarks
    /\ UNCHANGED <<autoReconnect, ws, connectPromise, connectionState,
                   reconnectAttempt, reconnectTimer, intentionalDisconnect,
                   orphanTimers, sockVars, actionVars, nextCall, wasOpen,
                   disconnecting, sinceDisconnect, apartVars, delay,
                   pushVars, waitVars>>

\* the function onConnectionStateChange returned (sdk.ts 235)
UnsubscribeConnection(l) ==
    /\ l \in Range(connectionListeners)
    /\ connectionListeners' = SelectSeq(connectionListeners, LAMBDA e : e # l)
    /\ heard' = [heard EXCEPT ![l] = NotHeard]
    /\ noMarks
    /\ UNCHANGED <<autoReconnect, ws, connectPromise, connectionState,
                   reconnectAttempt, reconnectTimer, intentionalDisconnect,
                   orphanTimers, sockVars, actionVars, nextCall, wasOpen,
                   disconnecting, sinceDisconnect, apartVars, delay,
                   pushVars, waitVars>>

\* getConnectionState() (sdk.ts 220-222)
getConnectionState == connectionState

\* ------------------------------------------ the reconnect controller alone

\* scheduleReconnect (sdk.ts 166-195) as the close handler calls it, with
\* reconnectMaxRetries at its default, Infinity; the previous timer has
\* fired.  MaxAttempt bounds the run.
ScheduleReconnect ==
    /\ autoReconnect /\ ~intentionalDisconnect
    /\ ~reconnectTimer
    /\ reconnectAttempt < MaxAttempt
    /\ reconnectAttempt' = reconnectAttempt + 1
    /\ setConnectionState("reconnecting", reconnectAttempt + 1)
    /\ delay' = backoff(reconnectBaseDelay, reconnectMaxDelay,
                        reconnectAttempt + 1)
    /\ reconnectTimer' = TRUE
    /\ noMarks
    /\ UNCHANGED <<autoReconnect, ws, connectPromise, intentionalDisconnect,
                   orphanTimers, connectionListeners, sockVars, actionVars,
                   nextCall, wasOpen, disconnecting, sinceDisconnect,
                   apartVars, pushVars, waitVars>>

\* The reconnect timer fires after `delay` and clears its handle
\* (sdk.ts 185-186); the connection attempt itself is left out here.
RetryFires ==
    /\ reconnectTimer
    /\ reconnectTimer' = FALSE
    /\ noMarks
    /\ UNCHANGED <<autoReconnect, ws, connectPromise, connectionState,
                   reconnectAttempt, intentionalDisconnect, orphanTimers,
                   connectionListeners, heard, sockVars, actionVars,
                   nextCall, wasOpen, disconnecting, sinceDisconnect,
                   apartVars, delay, pushVars, waitVars>>

\* The attempt succeeds: checkConnected (sdk.ts 143-144)
RetrySucceeds ==
    /\ ~reconnectTimer
    /\ connectionState = "reconnecting"
    /\ reconnectAttempt' = connectedAttempt
    /\ setConnectionState("connected", 0)
    /\ noMarks
    /\ UNCHANGED <<autoReconnect, ws, connectPromise, reconnectTimer,
                   intentionalDisconnect, orphanTimers, connectionListeners,
                   sockVars, actionVars, nextCall, wasOpen, disconnecting,
                   sinceDisconnect, apartVars, delay, pushVars, waitVars>>

\* ------------------------------------------------------ the state cache

\* getState() (sdk.ts 271-273)
getState == state

Last(q) == q[Len(q)]

\* (mutant) no try/catch: the loop ends at the listener that throws
stateCalledUntilThrow(L, thrower) ==
    {L[i] : i \in {j \in DOMAIN L : \A k \in 1..(j - 1) : L[k] # thrower}}

\* the listeners the loop of handleMessage calls when `thrower` throws
\* (sdk.ts 730-736): the exception is caught and logged
stateCalled(L, thrower) == Range(L)

\* (mutant) the cache is assigned after the listeners ran
cacheAtNotifyOld(x) == state

\* this.state while the listeners of the push of x run: it was assigned
\* before the loop (sdk.ts 729)
cacheAtNotify(x) == x

\* An sdk_state message on socket s; x = 0 is a message without a state,
\* which is ignored (sdk.ts 728).  The listener of a waitForCondition call
\* whose predicate holds clears its timer, unsubscribes and resolves
\* (sdk.ts 686-692).
OnState(s, x) ==
    /\ readyState[s] = "OPEN"
    /\ Len(pushes) < MaxPushes
    /\ UNCHANGED <<coreVars, apartVars, delay>>
    /\ IF x = 0
       THEN UNCHANGED <<pushVars, waitVars>>
       ELSE \E thrower \in (Range(stateListeners) \cap Listeners) \cup {0} :
            LET C   == stateCalled(stateListeners, thrower)
                hit == {w \in Waits : -w \in C /\ x \in predicate[w]}
            IN  /\ state' = x
                /\ pushes' = Append(pushes, x)
                /\ threw' = thrower
                /\ received' = [l \in Listeners |->
                                  IF l \in C THEN Append(received[l], x)
                                  ELSE received[l]]
                /\ observed' = [l \in Listeners |->
                                  IF l \in C THEN cacheAtNotify(x)
                                  ELSE observed[l]]
                /\ stateListeners' =
                      SelectSeq(stateListeners,
                                LAMBDA e : ~(e < 0 /\ -e \in hit))
                /\ condFuture' = [w \in Waits |->
                                  IF w \in hit THEN "resolved"
                                  ELSE condFuture[w]]
                /\ condValue' = [w \in Waits |->
                                  IF w \in hit THEN x ELSE condValue[w]]
                /\ condTimer' = [w \in Waits |->
                                  IF w \in hit THEN FALSE ELSE condTimer[w]]
                /\ UNCHANGED <<predicate, condPath, nextWait>>

\* onStateUpdate(listener) (sdk.ts 381-384) for a listener that is not
\* subscribed
OnStateUpdate(l) ==
    /\ l \notin Range(stateListeners)
    /\ stateListeners' = Append(stateListeners, l)
    /\ received' = [received EXCEPT ![l] = <<>>]
    /\ observed' = [observed EXCEPT ![l] = 0]
    /\ UNCHANGED <<coreVars, apartVars, delay, state, pushes, threw,
                   waitVars>>

\* the function onStateUpdate returned (sdk.ts 383)
UnsubscribeState(l) ==
    /\ l \in Range(stateListeners)
    /\ stateListeners' = SelectSeq(stateListeners, LAMBDA e : e # l)
    /\ received' = [received EXCEPT ![l] = <<>>]
    /\ observed' = [observed EXCEPT ![l] = 0]
    /\ UNCHANGED <<coreVars, apartVars, delay, state, pushes, threw,
                   waitVars>>

\* the predicates a caller can pass, as the sets of snapshots they hold for
Predicates == SUBSET Snapshots

\* (mutant) waitForCondition does not look at the cached snapshot
holdsNowNever(p) == FALSE

\* the immediate check of waitForCondition (sdk.ts 677)
holdsNow(p) == state # 0 /\ state \in p

\* waitForCondition(predicate) (sdk.ts 672-695)
WaitForCondition(p) ==
    /\ nextWait <= MaxWaits
    /\ nextWait' = nextWait + 1
    /\ predicate' = [predicate EXCEPT ![nextWait] = p]
    /\ UNCHANGED <<coreVars, apartVars, delay, state, pushes, threw,
                   received, observed>>
    /\ IF holdsNow(p)
       THEN /\ condFuture' = [condFuture EXCEPT ![nextWait] = "resolved"]
            /\ condValue' = [condValue EXCEPT ![nextWait] = state]
            /\ condPath' = [condPath EXCEPT ![nextWait] = "immediate"]
            /\ UNCHANGED <<stateListeners, condTimer>>
       ELSE /\ condFuture' = [condFuture EXCEPT ![nextWait] = "waiting"]
            /\ condTimer' = [condTimer EXCEPT ![nextWait] = TRUE]
            /\ stateListeners' = Append(stateListeners, -nextWait)
            /\ condPath' = [condPath EXCEPT ![nextWait] = "listening"]
            /\ UNCHANGED condValue

\* (mutant) the timeout callback rejects without unsubscribing
timeoutKeepListener(w) == stateListeners

\* unsubscribe() of the timeout callback of waitForCondition (sdk.ts 682)
timeoutUnsubscribe(w) == SelectSeq(stateListeners, LAMBDA e : e # -w)

\* The timeout timer of waitForCondition call w fires (sdk.ts 681-684):
\* unsubscribe, reject.
ConditionTimeout(w) ==
    /\ condTimer[w]
    /\ condTimer' = [condTimer EXCEPT ![w] = FALSE]
    /\ stateListeners' = timeoutUnsubscribe(w)
    /\ condFuture' = [condFuture EXCEPT ![w] =
                         IF @ = "waiting" THEN "rejected" ELSE @]
    /\ UNCHANGED <<coreVars, apartVars, delay, state, pushes, threw,
                   received, observed, predicate, condValue, condPath,
                   nextWait>>

\* ------------------------------------------------------ the script harness
\* runScript of the script runner (lab_log.md): execute() generates the save
\* file, launches the bot, starts the stall tracker, the health monitor and
\* the time-limit timer, starts the routine and polls every 500 ms until the
\* routine is done or one of the four flags is set.  Time is counted in poll
\* intervals; the timers that are due at the same instant run in any order.

config   == <<timeLimit, stallTimeout>>
flags    == <<stallDetected, timeLimitReached, disconnectDetected,
              tickFreezeDetected>>
trackers == <<lastProgressTime, lastPlayerPos, lastStateUpdateTime, lastTick>>
record   == <<runOutcome, outcomeDetail, setOutcomeCalls, stopRunCalls>>
monitors == <<active, subscribed, consoleCaptured>>

\* the order in which the abort conditions arose: c is added when its flag
\* goes from `was` to `is`
arisen(c, was, is) == IF ~was /\ is THEN Append(occurred, c) ELSE occurred

\* (mutant) the finally block does not stop the health monitor
finallyLeaks == active \cap {"healthCheck"}
\* the intervals and timers the finally block leaves running: clearInterval
\* (stateInterval), clearTimeout(timeLimitTimeout), progressTracker.stop(),
\* healthMonitor.stop()
finallyStops == {}

\* recorder.setOutcome(o, d) of the try or catch block, then the finally
\* block: the timers are cleared, the trackers stopped, the subscriptions
\* removed, the console restored, recorder.stopRun()
endRun(o, d) ==
    /\ runOutcome' = o
    /\ outcomeDetail' = d
    /\ setOutcomeCalls' = setOutcomeCalls + 1
    /\ stopRunCalls' = stopRunCalls + 1
    /\ phase' = "ended"
    /\ active' = finallyStops
    /\ due' = due \cap active'
    /\ subscribed' = {}
    /\ consoleCaptured' = FALSE

\* the catch block of execute(): the outcome and the detail recorded for err
classify(err) ==
    CASE err = "DisconnectError" -> <<"error", "Disconnect">>
      [] err = "StallError"      -> <<"stall", "other">>
      [] err = "TimeoutError"    -> <<"timeout", "other">>
      [] OTHER                   -> <<"error", "other">>

\* `await generateSave(botName, preset)`, before the try block: if it
\* rejects, execute() rejects and neither catch nor finally runs
GenerateSave(ok) ==
    /\ phase = "start"
    /\ phase' = IF ok THEN "launching" ELSE "ended"
    /\ UNCHANGED <<config, now, due, script, flags, trackers, playerPos,
                   record, raisedInRoutine, monitors, scenarioVars>>
    /\ UNCHANGED <<sdkAll, deltaVars, otherVars>>

\* `session = await launchBotWithSDK(...)` and the set-up that follows it up
\* to `scriptFn(ctx)`; pos is the position of the snapshot the SDK holds
\* after the launch (0: none)
Launch(ok, pos) ==
    /\ phase = "launching"
    /\ IF ok
       THEN /\ phase' = "supervising"
            /\ script' = "running"
            /\ playerPos' = pos
            /\ lastPlayerPos' = pos
            /\ steady' = (pos # 0)
            /\ walking' = TRUE
            /\ pushedSince' = TRUE
            /\ frozen' = TRUE
            /\ active' = {"stallCheck", "healthCheck", "snapshot", "timeLimit"}
            /\ subscribed' = {"connection", "state"}
            /\ consoleCaptured' = TRUE
            /\ UNCHANGED <<due, record>>
       ELSE /\ endRun("error", "other")
            /\ UNCHANGED <<script, playerPos, lastPlayerPos, steady, walking,
                           pushedSince, frozen>>
    /\ UNCHANGED <<config, now, flags, lastProgressTime, lastStateUpdateTime,
                   lastTick, raisedInRoutine, occurred>>
    /\ UNCHANGED <<sdkAll, deltaVars, otherVars>>

\* the timers that are due at time t
dueAt(t) ==
    (IF t % pollInterval = 0 THEN {"poll"} ELSE {})
    \cup (IF t % stallCheckInterval = 0 THEN {"stallCheck"} ELSE {})
    \cup (IF t % healthCheckInterval = 0 THEN {"healthCheck"} ELSE {})
    \cup (IF t % snapshotInterval = 0 THEN {"snapshot"} ELSE {})
    \cup (IF t = timeLimit THEN {"timeLimit"} ELSE {})

\* the clock advances by one poll interval once every due timer has run
Tick ==
    /\ phase = "supervising"
    /\ due = {}
    /\ now < MaxTime
    /\ now' = now + 1
    /\ due' = dueAt(now + 1) \cap (active \cup {"poll"})
    /\ walking' = (walking /\ pushedSince)
    /\ pushedSince' = FALSE
    /\ UNCHANGED <<config, phase, script, flags, trackers, playerPos, record,
                   raisedInRoutine, monitors, occurred, steady, frozen>>
    /\ UNCHANGED <<sdkAll, deltaVars, otherVars>>

\* (mutant) the loop does not look at the time-limit flag
limitNever == FALSE
\* `if (timeLimitReached)` of the supervision loop
limitSeen == timeLimitReached

\* the error the supervision loop throws at a check, "none" if it goes on
thrown ==
    IF disconnectDetected THEN "DisconnectError"
    ELSE IF tickFreezeDetected THEN "DisconnectError"
    ELSE IF stallDetected THEN "StallError"
    ELSE IF limitSeen THEN "TimeoutError"
    ELSE "none"

\* sleep(500) wins the race: the checks of the supervision loop
Poll ==
    /\ phase = "supervising"
    /\ "poll" \in due
    /\ IF thrown = "none"
       THEN /\ due' = due \ {"poll"}
            /\ UNCHANGED <<phase, record, monitors>>
       ELSE endRun(classify(thrown)[1], classify(thrown)[2])
    /\ UNCHANGED <<config, now, script, flags, trackers, playerPos,
                   raisedInRoutine, scenarioVars>>
    /\ UNCHANGED <<sdkAll, deltaVars, otherVars>>

\* (mutant) every sample counts as a move
movedAlways(p) == p # 0
\* ProgressTracker.checkPositionProgress: the snapshot has a player and its
\* position is not the last sampled one
moved(p) == p # 0 /\ p # lastPlayerPos

\* the interval callback of ProgressTracker.startChecking
StallCheck ==
    /\ "stallCheck" \in active
    /\ "stallCheck" \in due
    /\ due' = due \ {"stallCheck"}
    /\ lastPlayerPos' = IF moved(playerPos) THEN playerPos ELSE lastPlayerPos
    /\ lastProgressTime' = IF moved(playerPos) THEN now ELSE lastProgressTime
    /\ stallDetected' = (stallDetected \/ now - lastProgressTime' > stallTimeout)
    /\ occurred' = arisen("stall", stallDetected, stallDetected')
    /\ UNCHANGED <<config, now, phase, script, timeLimitReached,
                   disconnectDetected, tickFreezeDetected, playerPos,
                   lastStateUpdateTime, lastTick, record, raisedInRoutine,
                   monitors, steady, walking, pushedSince, frozen>>
    /\ UNCHANGED <<sdkAll, deltaVars, otherVars>>

\* the interval callback of ConnectionHealthMonitor.startChecking
HealthCheck ==
    /\ "healthCheck" \in active
    /\ "healthCheck" \in due
    /\ due' = due \ {"healthCheck"}
    /\ tickFreezeDetected' =
          (tickFreezeDetected \/ now - lastStateUpdateTime > tickFreezeThreshold)
    /\ occurred' = arisen("tickFreeze", tickFreezeDetected, tickFreezeDetected')
    /\ steady' = (steady /\ ~tickFreezeDetected')
    /\ UNCHANGED <<config, now, phase, script, stallDetected, timeLimitReached,
                   disconnectDetected, trackers, playerPos, record,
                   raisedInRoutine, monitors, walking, pushedSince, frozen>>
    /\ UNCHANGED <<sdkAll, deltaVars, otherVars>>

\* the callback of timeLimitTimeout
TimeLimitFires ==
    /\ "timeLimit" \in active
    /\ "timeLimit" \in due
    /\ due' = due \ {"timeLimit"}
    /\ timeLimitReached' = TRUE
    /\ occurred' = arisen("timeLimit", timeLimitReached, TRUE)
    /\ UNCHANGED <<config, now, phase, script, stallDetected,
                   disconnectDetected, tickFreezeDetected, trackers, playerPos,
                   record, raisedInRoutine, monitors, steady, walking,
                   pushedSince, frozen>>
    /\ UNCHANGED <<sdkAll, deltaVars, otherVars>>

\* the callback of stateInterval: recorder.logState of the cached snapshot
Snapshot ==
    /\ "snapshot" \in active
    /\ "snapshot" \in due
    /\ due' = due \ {"snapshot"}
    /\ UNCHANGED <<config, now, phase, script, flags, trackers, playerPos,
                   record, raisedInRoutine, monitors, scenarioVars>>
    /\ UNCHANGED <<sdkAll, deltaVars, otherVars>>

\* the SDK caches a pushed snapshot with tick t and position p and calls the
\* state listener of the harness: healthMonitor.onStateUpdate(state.tick)
Push(t, p) ==
    /\ phase = "supervising"
    /\ "state" \in subscribed
    /\ playerPos' = p
    /\ lastTick' = t
    /\ lastStateUpdateTime' = IF t # lastTick THEN now ELSE lastStateUpdateTime
    /\ steady' = (steady /\ p = playerPos /\ t # lastTick)
    /\ walking' = (walking /\ p # playerPos)
    /\ pushedSince' = TRUE
    /\ frozen' = (frozen /\ t = lastTick)
    /\ UNCHANGED <<config, now, due, phase, script, flags, lastProgressTime,
                   lastPlayerPos, record, raisedInRoutine, monitors, occurred>>
    /\ UNCHANGED <<sdkAll, deltaVars, otherVars>>

\* the connection listener of the harness
ConnectionChange(st) ==
    /\ "connection" \in subscribed
    /\ disconnectDetected' =
          CASE st = "disconnected" -> TRUE
            [] st = "connected"    -> FALSE
            [] OTHER               -> disconnectDetected
    /\ occurred' =
          IF disconnectDetected'
          THEN arisen("disconnect", disconnectDetected, TRUE)
          ELSE SelectSeq(occurred, LAMBDA c : c # "disconnect")
    /\ steady' = (steady /\ st # "disconnected")
    /\ frozen' = (frozen /\ st # "disconnected")
    /\ UNCHANGED <<config, now, due, phase, script, stallDetected,
                   timeLimitReached, tickFreezeDetected, trackers, playerPos,
                   record, raisedInRoutine, monitors, walking, pushedSince>>
    /\ UNCHANGED <<sdkAll, deltaVars, otherVars>>

\* ctx.progress(), or an action of the instrumented bot that succeeded:
\* progressTracker.markProgress()
MarkProgress ==
    /\ phase = "supervising"
    /\ script = "running"
    /\ lastProgressTime' = now
    /\ steady' = FALSE
    /\ UNCHANGED <<config, now, due, phase, script, flags, lastPlayerPos,
                   lastStateUpdateTime, lastTick, playerPos, record,
                   raisedInRoutine, monitors, occurred, walking, pushedSince,
                   frozen>>
    /\ UNCHANGED <<sdkAll, deltaVars, otherVars>>

\* the routine's promise resolves: 'done' wins the race, the loop is left
\* whatever the flags are, and the try block records the success
ScriptCompletes ==
    /\ phase = "supervising"
    /\ script = "running"
    /\ script' = "done"
    /\ endRun("success", "other")
    /\ UNCHANGED <<config, now, flags, trackers, playerPos, raisedInRoutine,
                   scenarioVars>>
    /\ UNCHANGED <<sdkAll, deltaVars, otherVars>>

\* the routine's promise rejects with err: the race rejects and the catch
\* block classifies err
ScriptThrows(err) ==
    /\ phase = "supervising"
    /\ script = "running"
    /\ script' = "threw"
    /\ endRun(classify(err)[1], classify(err)[2])
    /\ UNCHANGED <<config, now, flags, trackers, playerPos, raisedInRoutine,
                   scenarioVars>>
    /\ UNCHANGED <<sdkAll, deltaVars, otherVars>>

\* ------------------------------------------------------ computeStateDelta
\* The inventory part of computeStateDelta (lab_log.md).  An inventory is
\* the sequence of its slots, a slot is <<name, count>>.  A Map is the
\* sequence of its entries <<key, value>> in insertion order, which is the
\* order forEach visits them in.

Slot == ItemNames \X Counts
Inventories == UNION {[1..n -> Slot] : n \in 0..MaxSlots}

\* `map.get(name) || 0`
getOrZero(map, name) ==
    LET hits == {i \in DOMAIN map : map[i][1] = name}
    IN  IF hits = {} THEN 0 ELSE map[CHOOSE i \in hits : TRUE][2]

\* map.set(name, v): an existing key keeps its place
mapSet(map, name, v) ==
    IF \E i \in DOMAIN map : map[i][1] = name
    THEN [i \in DOMAIN map |-> IF map[i][1] = name THEN <<name, v>> ELSE map[i]]
    ELSE Append(map, <<name, v>>)

\* (mutant) the count of a slot replaces the count so far
accumulateLast(sofar, count) == count
\* `(map.get(item.name) || 0) + item.count`
accumulate(sofar, count) == sofar + count

\* the loops `for (const item of inventory) map.set(...)`
RECURSIVE invCounts(_)
invCounts(inventory) ==
    IF inventory = <<>> THEN <<>>
    ELSE LET map  == invCounts(SubSeq(inventory, 1, Len(inventory) - 1))
             item == inventory[Len(inventory)]
         IN  mapSet(map, item[1], accumulate(getOrZero(map, item[1]), item[2]))

\* the two forEach loops: the entries of `counts` whose count is greater
\* than the count of the same name in `other`, with the difference
RECURSIVE exceeding(_, _)
exceeding(counts, other) ==
    IF counts = <<>> THEN <<>>
    ELSE LET name == Head(counts)[1]
             mine == Head(counts)[2]
             its  == getOrZero(other, name)
         IN  (IF mine > its THEN <<<<name, mine - its>>>> ELSE <<>>)
             \o exceeding(Tail(counts), other)

\* computeStateDelta(prev, curr), inventory part
ComputeDelta ==
    /\ ~deltaComputed
    /\ LET prevInvCounts == invCounts(prevInventory)
           currInvCounts == invCounts(currInventory)
       IN  /\ itemsGained' = exceeding(currInvCounts, prevInvCounts)
           /\ itemsLost' = exceeding(prevInvCounts, currInvCounts)
    /\ deltaComputed' = TRUE
    /\ UNCHANGED <<prevInventory, currInventory>>
    /\ UNCHANGED <<sdkAll, harnessVars, scenarioVars, otherVars>>

\* ------------------------------------------------------ the instrumented bot
\* createInstrumentedBot (lab_log.md): the async wrapper the proxy returns
\* for every method of the bot.  An argument is <<kind, value>>; a thrown
\* value is <<"Error", message>> or <<"string", text>>.  The state delta the
\* wrapper adds to the record is left out.

BotArgs == {<<"string", "Tree">>, <<"regexp", "/^tree$/i">>}
BotResults == {"chopped", "walked"}
BotErrors == {<<"Error", "Action timed out">>, <<"string", "cancelled">>}

\* formatArgs, for one argument: a primitive is kept, a RegExp becomes its
\* source text
formatArgs(arg) ==
    IF arg[1] = "regexp" THEN <<"string", arg[2]>> ELSE arg

\* `err instanceof Error ? err.message : String(err)`
errorText(err) == err[2]

\* (mutant) progress is marked on both paths
progressAlways(kind) == 1
\* onProgress() is called at the end of the try block only
progressFor(kind) == IF kind = "returned" THEN 1 ELSE 0

\* the routine calls a method of the instrumented bot with argument arg
CallBot(arg) ==
    /\ callStatus = "idle"
    /\ Len(botCalls) < MaxBotCalls
    /\ callStatus' = "running"
    /\ callArg' = arg
    /\ startTime' = clock
    /\ UNCHANGED <<clock, actionLog, progressMarks, delivered, botCalls>>
    /\ UNCHANGED <<sdkAll, harnessVars, scenarioVars, deltaVars, runnerVars,
                   lruVars>>

\* time passes while the method of the bot runs
Elapse ==
    /\ callStatus = "running"
    /\ clock < MaxClock
    /\ clock' = clock + 1
    /\ UNCHANGED <<callStatus, callArg, startTime, actionLog, progressMarks,
                   delivered, botCalls>>
    /\ UNCHANGED <<sdkAll, harnessVars, scenarioVars, deltaVars, runnerVars,
                   lruVars>>

\* the wrapper after the method has settled: kind is "returned" with the
\* result v, or "threw" with the thrown value v
settled(kind, v) ==
    /\ callStatus = "running"
    /\ callStatus' = "idle"
    /\ actionLog' = Append(actionLog,
                           <<formatArgs(callArg),
                             IF kind = "returned" THEN <<"result", v>>
                             ELSE <<"error", errorText(v)>>,
                             clock - startTime>>)
    /\ progressMarks' = progressMarks + progressFor(kind)
    /\ delivered' = Append(delivered, <<kind, v>>)
    /\ botCalls' = Append(botCalls, <<callArg, kind, v, startTime, clock>>)
    /\ UNCHANGED <<callArg, startTime, clock>>
    /\ UNCHANGED <<sdkAll, harnessVars, scenarioVars, deltaVars, runnerVars,
                   lruVars>>

\* the method of the bot returns r: the try block
BotReturns(r) == settled("returned", r)

\* the method of the bot throws e: the catch block
BotThrows(e) == settled("threw", e)

\* ------------------------------------------------------ the script runner
\* runScript of the runner (src/unnamed/part_005).  A value the routine
\* returns is "undefined", "value" or "circular" (an object JSON.stringify
\* cannot print); a value it throws is "Error" or "undefined" (a rejection
\* without a reason).

Returned == {"undefined", "value", "circular"}
Thrown == {"Error", "undefined"}

\* JavaScript truthiness of an error slot
truthy(e) == e \notin {"undefined", "none"}

\* runScript returns this RunResult
returns(res) ==
    /\ runResult' = res
    /\ runnerPhase' = "done"

\* the options are read and the connection is obtained (part_005 165-206):
\* a connection of `connections` is reused; without one autoConnect opens a
\* new one, and ok says whether getOrCreateConnection succeeds in that
Setup(ok) ==
    /\ runnerPhase = "start"
    /\ IF optConnection \/ (optBotName /\ (existing \/ (optAutoConnect /\ ok)))
       THEN /\ runnerPhase' = "running"
            /\ managedConnection' = ~optConnection
            /\ existing' = (existing \/ ~optConnection)
            /\ scriptStarted' = TRUE
            /\ UNCHANGED <<runResult, setupFailed>>
       ELSE /\ returns([success |-> FALSE, result |-> "undefined",
                        error |-> "Error"])
            /\ setupFailed' = TRUE
            /\ UNCHANGED <<managedConnection, scriptStarted, existing>>
    /\ UNCHANGED <<options, scriptEnd, runnerRejected, sdkDisconnected>>
    /\ UNCHANGED <<sdkAll, harnessVars, scenarioVars, deltaVars, instrVars,
                   lruVars>>

\* the rest of runScript once `await script(ctx)` or the race with the
\* timeout has settled (part_005 242-312): kind is "returned", "threw" or
\* "timeout", v the value returned or thrown
Finish(kind, v) ==
    /\ runnerPhase = "running"
    /\ kind = "timeout" => optTimeout
    /\ scriptEnd' = <<kind, v>>
    /\ LET result == IF kind = "returned" THEN v ELSE "undefined"
           error  == CASE kind = "threw"   -> v
                       [] kind = "timeout" -> "Error"
                       [] OTHER            -> "none"
           prints == result # "undefined" /\ ~truthy(error)
       IN  IF prints /\ result = "circular"
           THEN \* JSON.stringify(result, null, 2) throws: runScript rejects
                /\ runnerRejected' = TRUE
                /\ runnerPhase' = "done"
                /\ UNCHANGED <<runResult, sdkDisconnected, existing>>
           ELSE /\ sdkDisconnected' =
                      (optDisconnectAfter /\ managedConnection /\ optBotName)
                /\ existing' = (existing /\ ~sdkDisconnected')
                /\ returns([success |-> ~truthy(error),
                            result |-> IF truthy(error) THEN "undefined"
                                       ELSE result,
                            error |-> error])
                /\ UNCHANGED runnerRejected
    /\ UNCHANGED <<options, managedConnection, scriptStarted, setupFailed>>
    /\ UNCHANGED <<sdkAll, harnessVars, scenarioVars, deltaVars, instrVars,
                   lruVars>>

\* --------------------------------------------------------- the LRU cache
\* LruCache (src/webclient/src/datastruct/LruCache.ts) over DoublyLinkList
\* and DoublyLinkable.  A cell is a DoublyLinkable: one of the nodes the
\* callers hold, or the sentinel `head` of the history list; `null` is
\* JavaScript's null.  links is the pair of the fields next2 and prev2 of
\* every cell.

\* DoublyLinkable.uncache() of cell n
uncache(n, L) ==
    IF L.prev2[n] = null \/ L.next2[n] = null
    THEN L
    ELSE LET nx1 == [L.next2 EXCEPT ![L.prev2[n]] = L.next2[n]]
             pv1 == [L.prev2 EXCEPT ![nx1[n]] = L.prev2[n]]
         IN  [next2 |-> [nx1 EXCEPT ![n] = null],
              prev2 |-> [pv1 EXCEPT ![n] = null]]

\* DoublyLinkList.push(node)
push(n, L) ==
    LET L1  == IF L.prev2[n] # null THEN uncache(n, L) ELSE L
        pv1 == [L1.prev2 EXCEPT ![n] = L1.prev2[head]]
        nx1 == [L1.next2 EXCEPT ![n] = head]
        nx2 == IF pv1[n] # null THEN [nx1 EXCEPT ![pv1[n]] = n] ELSE nx1
    IN  [next2 |-> nx2, prev2 |-> [pv1 EXCEPT ![nx2[n]] = n]]

\* (mutant) pop takes the cell before the sentinel: the newest
popNewest(L) == L.prev2[head]
\* `const node = this.head.next2` of pop: the oldest
popOldest(L) == L.next2[head]

\* DoublyLinkList.pop(): <<the node returned, the links afterwards>>
pop(L) ==
    LET node == popOldest(L)
    IN  IF node = head THEN <<null, L>>
        ELSE IF node = null THEN <<null, L>>
        ELSE <<node, uncache(node, L)>>

\* the cells of the list from cell c to the sentinel, at most n of them
RECURSIVE listFrom(_, _, _)
listFrom(c, L, n) ==
    IF c = head \/ c = null \/ n = 0 THEN <<>>
    ELSE <<c>> \o listFrom(L.next2[c], L, n - 1)

\* the history list, oldest first
history == listFrom(links.next2[head], links, Cardinality(Nodes))

\* The hash table is kept as the key each node is stored under: a Linkable
\* is in one bucket at most, hashtable.put(key, value) stores the value under
\* the key, hashtable.get(key) returns a node stored under the key (any of
\* them, if several are), and Linkable.unlink() takes the node out.
unlink(n, T) == IF n = null THEN T ELSE [T EXCEPT ![n] = null]

\* what the step did
did(op, key, node) ==
    lastOp' = [op |-> op, key |-> key, node |-> node,
               before |-> history, availableBefore |-> available]

\* LruCache.get(key)
get(key) ==
    /\ \E node \in {n \in Nodes : hashtable[n] = key} \cup
                   (IF \E n \in Nodes : hashtable[n] = key THEN {} ELSE {null}) :
          /\ links' = IF node # null THEN push(node, links) ELSE links
          /\ did("get", key, node)
    /\ UNCHANGED <<capacity, available, hashtable>>
    /\ UNCHANGED <<sdkAll, harnessVars, scenarioVars, deltaVars, instrVars,
                   runnerVars>>

\* LruCache.put(key, value)
put(key, value) ==
    /\ LET popped == IF available = 0 THEN pop(links) ELSE <<null, links>>
           T1 == unlink(popped[1], hashtable)
           L1 == IF popped[1] # null THEN uncache(popped[1], popped[2])
                 ELSE popped[2]
       IN  /\ available' = IF available = 0 THEN available ELSE available - 1
           /\ hashtable' = [T1 EXCEPT ![value] = key]
           /\ links' = push(value, L1)
    /\ did("put", key, value)
    /\ UNCHANGED capacity
    /\ UNCHANGED <<sdkAll, harnessVars, scenarioVars, deltaVars, instrVars,
                   runnerVars>>

\* LruCache.clear()
clear ==
    /\ LET popped == pop(links)
       IN  IF popped[1] = null
           THEN /\ available' = capacity
                /\ UNCHANGED <<links, hashtable>>
           ELSE /\ hashtable' = unlink(popped[1], hashtable)
                /\ links' = uncache(popped[1], popped[2])
                /\ UNCHANGED available
    /\ did("clear", null, null)
    /\ UNCHANGED capacity
    /\ UNCHANGED <<sdkAll, harnessVars, scenarioVars, deltaVars, instrVars,
                   runnerVars>>

\* ------------------------------------------------------- the state machine

Next ==
    \/ Connect
    \/ ReconnectTimerFire
    \/ \E s \in Sockets : OnOpen(s)
    \/ \E s \in Sockets : ConnectTimeout(s)
    \/ \E s \in Sockets : OnConnected(s)
    \/ \E s \in Sockets : OnClose(s)
    \/ \E s \in Sockets : OnError(s)
    \/ Disconnect
    \/ SendAction
    \/ \E c \in Calls : ActionTimeout(c)
    \/ \E c \in Calls : WaitTimeout(c)
    \/ \E s \in Sockets, id \in 1..MaxActions, r \in Results \cup {NoResult} :
          OnActionResult(s, id, r)
    \/ \E s \in Sockets, id \in 0..MaxActions : OnSdkError(s, id)

Spec == Init /\ [][Next]_vars

\* The connection and its listeners, without the actions.
ConnNext ==
    \/ Connect
    \/ ReconnectTimerFire
    \/ \E s \in Sockets : OnOpen(s)
    \/ \E s \in Sockets : ConnectTimeout(s)
    \/ \E s \in Sockets : OnConnected(s)
    \/ \E s \in Sockets : OnClose(s)
    \/ \E s \in Sockets : OnError(s)
    \/ Disconnect
    \/ \E l \in Listeners : OnConnectionStateChange(l)
    \/ \E l \in Listeners : UnsubscribeConnection(l)

ConnSpec == Init /\ [][ConnNext]_vars

\* The reconnect controller alone, for every configured pair of delays.
BackoffInit ==
    /\ InitSdk
    /\ reconnectBaseDelay \in Bases
    /\ reconnectMaxDelay \in Caps
    /\ InitHarness(defaultTimeLimit, defaultStallTimeout)
    /\ InitDelta(<<>>, <<>>)
    /\ InitOther

BackoffNext ==
    \/ ScheduleReconnect
    \/ RetryFires
    \/ RetrySucceeds

BackoffSpec == BackoffInit /\ [][BackoffNext]_vars

\* The state cache and its listeners over a connection that opens and
\* closes.
StateNext ==
    \/ Connect
    \/ \E s \in Sockets : OnOpen(s)
    \/ \E s \in Sockets : OnClose(s)
    \/ \E s \in Sockets, x \in Snapshots \cup {0} : OnState(s, x)
    \/ \E l \in Listeners : OnStateUpdate(l)
    \/ \E l \in Listeners : UnsubscribeState(l)
    \/ \E p \in Predicates : WaitForCondition(p)
    \/ \E w \in Waits : ConditionTimeout(w)

StateSpec == Init /\ [][StateNext]_vars

\* The script harness, for every configuration of TimeLimits x StallTimeouts
HarnessInit ==
    /\ InitSdk
    /\ autoReconnect
    /\ reconnectBaseDelay = defaultBaseDelay
    /\ reconnectMaxDelay = defaultMaxDelay
    /\ \E tl \in TimeLimits, st \in StallTimeouts : InitHarness(tl, st)
    /\ InitDelta(<<>>, <<>>)
    /\ InitOther

HarnessNext ==
    \/ \E ok \in BOOLEAN : GenerateSave(ok)
    \/ \E ok \in BOOLEAN, p \in Positions \cup {0} : Launch(ok, p)
    \/ Tick
    \/ Poll
    \/ StallCheck
    \/ HealthCheck
    \/ TimeLimitFires
    \/ Snapshot
    \/ \E t \in Snapshots, p \in Positions : Push(t, p)
    \/ \E st \in ConnectionState : ConnectionChange(st)
    \/ MarkProgress
    \/ ScriptCompletes
    \/ \E err \in RoutineErrors : ScriptThrows(err)

HarnessSpec == HarnessInit /\ [][HarnessNext]_vars

\* computeStateDelta, for every pair of inventories
DeltaInit ==
    /\ InitSdk
    /\ autoReconnect
    /\ reconnectBaseDelay = defaultBaseDelay
    /\ reconnectMaxDelay = defaultMaxDelay
    /\ InitHarness(defaultTimeLimit, defaultStallTimeout)
    /\ \E prev \in Inventories, curr \in Inventories : InitDelta(prev, curr)
    /\ InitOther

DeltaNext == ComputeDelta

DeltaSpec == DeltaInit /\ [][DeltaNext]_vars

\* The instrumented bot under a routine that calls it
InstrInit ==
    /\ InitSdk
    /\ autoReconnect
    /\ reconnectBaseDelay = defaultBaseDelay
    /\ reconnectMaxDelay = defaultMaxDelay
    /\ InitHarness(defaultTimeLimit, defaultStallTimeout)
    /\ InitDelta(<<>>, <<>>)
    /\ InitInstr
    /\ InitRunner(FALSE, FALSE, TRUE, FALSE, FALSE, FALSE)
    /\ InitLru(1)

InstrNext ==
    \/ \E arg \in BotArgs : CallBot(arg)
    \/ Elapse
    \/ \E r \in BotResults : BotReturns(r)
    \/ \E e \in BotErrors : BotThrows(e)

InstrSpec == InstrInit /\ [][InstrNext]_vars

\* The runner's runScript, for every combination of its options
RunnerInit ==
    /\ InitSdk
    /\ autoReconnect
    /\ reconnectBaseDelay = defaultBaseDelay
    /\ reconnectMaxDelay = defaultMaxDelay
    /\ InitHarness(defaultTimeLimit, defaultStallTimeout)
    /\ InitDelta(<<>>, <<>>)
    /\ InitInstr
    /\ \E c \in BOOLEAN, b \in BOOLEAN, a \in BOOLEAN, d \in BOOLEAN,
          t \in BOOLEAN, e \in BOOLEAN :
          InitRunner(c, b, a, d, t, e)
    /\ InitLru(1)

RunnerNext ==
    \/ \E ok \in BOOLEAN : Setup(ok)
    \/ \E v \in Returned : Finish("returned", v)
    \/ \E v \in Thrown : Finish("threw", v)
    \/ Finish("timeout", "Error")

RunnerSpec == RunnerInit /\ [][RunnerNext]_vars

\* The LRU cache, for every capacity up to MaxCapacity
LruInit ==
    /\ InitSdk
    /\ autoReconnect
    /\ reconnectBaseDelay = defaultBaseDelay
    /\ reconnectMaxDelay = defaultMaxDelay
    /\ InitHarness(defaultTimeLimit, defaultStallTimeout)
    /\ InitDelta(<<>>, <<>>)
    /\ InitInstr
    /\ InitRunner(FALSE, FALSE, TRUE, FALSE, FALSE, FALSE)
    /\ \E size \in 1..MaxCapacity : InitLru(size)

LruNext ==
    \/ \E key \in Keys : get(key)
    \/ \E key \in Keys, value \in Nodes : put(key, value)
    \/ clear

LruSpec == LruInit /\ [][LruNext]_vars

\* ================================================================ claims

Settled == {"resolved", "rejected"}
Messages == Sockets \X (1..MaxActions) \X (Results \cup {NoResult})

\* ---- C1
\* C1: the future of every submitted action settles exactly once.  No
\* second settlement is attempted (resolve and reject ran at most once in
\* total, so never both), a settled future is settled by exactly one of
\* them, and a registered action that is unsettled has its deadline timer
\* armed, so that the deadline settles it when nothing else does; the timer
\* of a settled action is never left armed.
C1_SettlesExactlyOnce ==
    \A c \in Calls :
        /\ resolveCalls[c] + rejectCalls[c] <= 1
        /\ future[c] = "resolved" <=> resolveCalls[c] = 1
        /\ future[c] = "rejected" <=> rejectCalls[c] = 1
        /\ future[c] = "pending" => deadline[c]
        /\ future[c] \in Settled => ~deadline[c]

\* one action was acknowledged and another was rejected by a socket close
C1_Witness ==
    \E c, d \in Calls :
        /\ future[c] = "resolved"
        /\ future[d] = "rejected" /\ outcome[d] = "Connection closed"

\* ---- C2
\* C2: the pending map holds exactly the actionIds of the actions whose
\* future is unsettled, one entry per id and one id per action; an id is
\* allocated when the action is registered, and no entry outlives the
\* settlement of its future.
C2_PendingMapIsUnsettled ==
    /\ DOMAIN pendingActions = {actionId[c] : c \in {d \in Calls : future[d] = "pending"}}
    /\ \A i \in DOMAIN pendingActions : actionId[pendingActions[i]] = i
    /\ \A c, d \in Calls :
          (future[c] = "pending" /\ future[d] = "pending" /\ c # d)
              => actionId[c] # actionId[d]
    /\ \A c \in Calls : future[c] \in {"idle", "waiting"} => actionId[c] = 0

\* one action is still in the map while another, registered too, has settled
C2_Witness ==
    \E c, d \in Calls :
        /\ future[c] = "pending" /\ actionId[c] \in DOMAIN pendingActions
        /\ future[d] \in Settled /\ actionId[d] # 0
        /\ actionId[d] \notin DOMAIN pendingActions

\* ---- C3
\* what handling a result for the pending id does: the call that owns the id
\* gets state st with value val, its timer is cleared, its entry removed,
\* and every other call and entry is left as it was
AckEffect(id, st, val) ==
    LET c == pendingActions[id] IN
    /\ future'[c] = st
    /\ outcome'[c] = val
    /\ ~deadline'[c]
    /\ pendingActions' = without(pendingActions, id)
    /\ \A d \in Calls \ {c} :
          /\ future'[d] = future[d]
          /\ outcome'[d] = outcome[d]
          /\ deadline'[d] = deadline[d]

\* C3 (as stated): every sdk_action_result that carries the id of a pending
\* action resolves that action with the carried result.
C3_AckAlwaysResolves ==
    [][\A m \in Messages :
          (OnActionResult(m[1], m[2], m[3]) /\ m[2] \in DOMAIN pendingActions)
              => AckEffect(m[2], "resolved", m[3])]_vars

\* C3 (amended): an sdk_action_result that carries the id of a pending action
\* settles exactly that action, whatever the order of arrival: it resolves
\* it with the carried result when the message has one and rejects it when
\* the message has none; it clears that action's timer, removes its entry
\* and changes no other pending action.
C3_AckSettlesById ==
    [][\A m \in Messages :
          (OnActionResult(m[1], m[2], m[3]) /\ m[2] \in DOMAIN pendingActions)
              => IF m[3] # NoResult
                 THEN AckEffect(m[2], "resolved", m[3])
                 ELSE AckEffect(m[2], "rejected", "No result in action response")]_vars

\* the action submitted later was acknowledged first, the earlier one is
\* still pending
C3_Witness ==
    \E c, d \in Calls :
        /\ future[c] = "pending" /\ future[d] = "resolved"
        /\ actionId[c] < actionId[d]

\* ---- C4
TimedOut(id) ==
    \E c \in Calls : actionId[c] = id /\ outcome[c] = "Action timed out"

\* C4: when the deadline of a pending action fires, the action is rejected
\* with the timeout error and its entry is removed; a result or an error
\* that arrives for that id afterwards changes no future, no entry, no timer
\* and no settlement count.
C4_TimeoutThenLateAckNoOp ==
    [][/\ \A c \in Calls :
             (ActionTimeout(c) /\ future[c] = "pending")
                 => /\ future'[c] = "rejected"
                    /\ outcome'[c] = "Action timed out"
                    /\ actionId[c] \notin DOMAIN pendingActions'
       /\ (lateMessage' # 0 /\ TimedOut(lateMessage')) => UNCHANGED actionVars
      ]_vars

\* a message for the id of a timed-out action has just been handled
C4_Witness == lateMessage # 0 /\ TimedOut(lateMessage)

\* ---- C5
\* C5 (as stated): when disconnect() has completed, every action that was
\* pending is rejected with the connection-closed error, its deadline timer
\* is cancelled and the pending map is empty.
C5_DisconnectRejectsAll ==
    [][Disconnect =>
          /\ pendingActions' = <<>>
          /\ \A c \in PendingCalls :
                /\ future'[c] = "rejected"
                /\ outcome'[c] = "Connection closed"
                /\ ~deadline'[c]]_vars

\* ---- C6
\* a handshake is in flight: a socket of the session is connecting, or open
\* with its identify unacknowledged
InFlight ==
    \E s \in Sockets : readyState[s] \in {"CONNECTING", "OPEN"} /\ ~connAck[s]

\* C6 (as stated): a connect() call made while a handshake is in flight, or
\* on an established connection, opens no socket, and the call shares the
\* outcome of the attempt: a call that has returned resolved means the
\* promise of the attempt on the session socket is resolved.
C6_ConnectShared ==
    [][lastConnect' # "none" =>
          /\ (InFlight \/ (isConnected /\ connAck[ws])) => nextSock' = nextSock
          /\ lastConnect' = "early" => promise'[ws'] = "resolved"]_vars

\* ---- C7
\* C7 (as stated): a connect() call is resolved only after sdk_connected was
\* received on the session socket, whether it resolves through the shared
\* promise or returns at once.
C7_ResolveOnlyAfterAck ==
    /\ \A s \in Sockets : promise[s] = "resolved" => connAck[s]
    /\ lastConnect = "early" => connAck[ws]

\* ---- C8
\* C8 (as stated): a connect() call does not stay pending forever: as long
\* as its promise is pending the handshake timeout that rejects it is armed.
C8_PendingConnectHasTimeout ==
    \A s \in Sockets : promise[s] = "pending" => connectTimeout[s]

\* ---- C9
Transitions ==
    { <<"disconnected", "connecting">>,
      <<"connecting", "connected">>,
      <<"connecting", "disconnected">>,
      <<"connected", "reconnecting">>,
      <<"connected", "disconnected">>,
      <<"reconnecting", "connected">>,
      <<"reconnecting", "disconnected">> }

\* C9 (as stated): every change of the connection state is a transition of
\* the table, with auto-reconnect on or off.
C9_TransitionTable ==
    [][connectionState' # connectionState
          => <<connectionState, connectionState'>> \in Transitions]_vars

\* ---- C10
\* C10 (as stated): after disconnect() and until the application calls
\* connect() the state is 'disconnected', no socket is opened and no
\* reconnect is scheduled; and the close event of a socket that disconnect()
\* closed never schedules a reconnect.
C10_DisconnectTerminal ==
    [][/\ sinceDisconnect' =>
             /\ connectionState' = "disconnected"
             /\ ~reconnectTimer'
             /\ sinceDisconnect =>
                   (nextSock' = nextSock /\ orphanTimers' <= orphanTimers)
       /\ \A s \in disconnecting :
             readyState'[s] = "CLOSED" =>
                 /\ connectionState' # "reconnecting"
                 /\ reconnectTimer' = reconnectTimer
                 /\ reconnectAttempt' = reconnectAttempt
      ]_vars

\* ---- C11
\* a close event runs scheduleReconnect with the retries used up
GaveUp ==
    /\ \E s \in Sockets : readyState[s] # "CLOSED" /\ readyState'[s] = "CLOSED"
    /\ autoReconnect /\ ~intentionalDisconnect
    /\ reconnectAttempt >= reconnectMaxRetries

\* C11 (as stated): with at most M = reconnectMaxRetries retries, the attempt
\* counter only steps up by one (or is reset), it never exceeds M, and when
\* the retries are used up the state becomes 'disconnected' and no retry
\* remains scheduled.
C11_BoundedRetries ==
    [][/\ reconnectAttempt' \in {reconnectAttempt, reconnectAttempt + 1, 0}
       /\ reconnectAttempt' <= reconnectMaxRetries
       /\ GaveUp => /\ connectionState' = "disconnected"
                    /\ ~reconnectTimer'
                    /\ orphanTimers' = 0
      ]_vars

\* ---- C12
\* C12: when checkConnected ends a reconnection the state is 'connected' and
\* the attempt counter is 0; the close that next leaves 'connected' for
\* 'reconnecting' is attempt 1, whose delay is the base delay.
C12_ReconnectResets ==
    [][/\ lastReconnected' =>
             (connectionState' = "connected" /\ reconnectAttempt' = 0)
       /\ (connectionState = "connected" /\ connectionState' = "reconnecting")
             => /\ reconnectAttempt' = 1
                /\ delay' = reconnectBaseDelay
      ]_vars

C12_Witness ==
    lastReconnected /\ connectionState = "connected" /\ reconnectAttempt = 0

\* ---- C13
\* the delays of the attempts 1, 2, ... for the default configuration
DefaultDelays == <<1000, 2000, 4000, 8000, 16000, 30000>>

\* C13: the delay of attempt 1 is min(base, cap) and the delay of each later
\* attempt of the cycle is min(twice the previous delay, cap), which is
\* min(base * 2^(n-1), cap); it never decreases within a cycle and never
\* exceeds cap; for base 1000 and cap 30000 the delays are 1000, 2000,
\* 4000, 8000, 16000, 30000, 30000, ...
C13_BackoffDelays ==
    [][reconnectAttempt' = reconnectAttempt + 1 =>
          /\ delay' <= reconnectMaxDelay
          /\ IF reconnectAttempt = 0
             THEN delay' = Min(reconnectBaseDelay, reconnectMaxDelay)
             ELSE /\ delay' = Min(2 * delay, reconnectMaxDelay)
                  /\ delay' >= delay
          /\ (reconnectBaseDelay = 1000 /\ reconnectMaxDelay = 30000) =>
                delay' = DefaultDelays[Min(reconnectAttempt', 6)]
      ]_vars

C13_Witness ==
    /\ reconnectBaseDelay = 1000 /\ reconnectMaxDelay = 30000
    /\ reconnectAttempt = 7 /\ delay = 30000
    /\ connectionState = "reconnecting"

\* ---- C14
\* sendAction call c is made in this step
Submitted(c) == future[c] = "idle" /\ future'[c] # "idle"

\* C14 (as stated): an action submitted in state 'reconnecting' waits; it is
\* registered (and written) only in a step that ends in state 'connected',
\* and a wait ends in rejection only because reconnection gave up or the
\* wait timed out.
C14_ReconnectingSubmitWaits ==
    [][\A c \in Calls :
          /\ (Submitted(c) /\ connectionState = "reconnecting")
                => future'[c] = "waiting"
          /\ (future[c] = "waiting" /\ future'[c] = "pending")
                => connectionState' = "connected"
          /\ (future[c] = "waiting" /\ future'[c] = "rejected")
                => outcome'[c] \in {"Connection failed",
                                    "waitForConnection timed out"}
      ]_vars

\* ---- C15
\* C15 (as stated): an action submitted while the socket is not open waits
\* for the connection, except after an intentional disconnect(), where it
\* fails at once.
C15_SubmitAwaitsUnlessIntentional ==
    [][\A c \in Calls :
          (Submitted(c) /\ ~isConnected) =>
              IF intentionalDisconnect THEN future'[c] = "rejected"
              ELSE future'[c] = "waiting"
      ]_vars

\* C15 (amended): an action submitted while the socket is not open waits
\* exactly when the state is 'reconnecting'; in every other state it is
\* rejected at once with 'Not connected' and nothing is registered.
C15_SubmitAwaitsOnlyReconnecting ==
    [][\A c \in Calls :
          (Submitted(c) /\ ~isConnected) =>
              /\ actionId'[c] = 0 /\ ~deadline'[c]
              /\ pendingActions' = pendingActions
              /\ IF connectionState = "reconnecting"
                 THEN future'[c] = "waiting"
                 ELSE /\ future'[c] = "rejected"
                      /\ outcome'[c] = "Not connected"
      ]_vars

C15_Witness ==
    \E c, d \in Calls :
        /\ future[c] = "waiting"
        /\ future[d] = "rejected" /\ outcome[d] = "Not connected"
        /\ connectionState = "reconnecting"

\* ---- C16
\* the arguments setConnectionState passes for the state of the session
Broadcast == <<connectionState,
               IF connectionState = "reconnecting" THEN reconnectAttempt ELSE 0>>

\* C16: a step that changes the connection state calls every subscribed
\* listener with the new state (and the attempt number for 'reconnecting'),
\* whichever listener throws; what a subscribed listener received last is
\* the state getConnectionState() returns.
C16_ListenersFollowState ==
    [][/\ getConnectionState' # getConnectionState =>
             \A l \in Range(connectionListeners) : heard'[l] = Broadcast'
       /\ \A l \in Range(connectionListeners') :
             heard'[l] # NotHeard => heard'[l] = Broadcast'
      ]_vars

C16_Witness ==
    /\ Len(connectionListeners) = 2
    /\ connectionState = "reconnecting"
    /\ \A l \in Range(connectionListeners) : heard[l] = <<"reconnecting", 1>>

\* ---- C17
\* C17: a call that has an actionId, a deadline timer or a pending entry had
\* its command written to an open socket; a call rejected with
\* 'Not connected' was rejected explicitly and has no actionId, no pending
\* entry, no deadline timer and nothing written.
C17_RegisteredWasWritten ==
    \A c \in Calls :
        /\ (actionId[c] # 0 \/ deadline[c] \/ c \in PendingCalls
               \/ future[c] = "pending") => written[c]
        /\ outcome[c] = "Not connected" =>
               /\ future[c] = "rejected" /\ rejectCalls[c] = 1
               /\ actionId[c] = 0 /\ ~deadline[c]
               /\ c \notin PendingCalls /\ ~written[c]

C17_Witness ==
    \E c, d \in Calls :
        /\ future[c] = "pending" /\ written[c] /\ deadline[c]
        /\ outcome[d] = "Not connected"

\* ---- C18
\* q is the tail of r
IsSuffix(q, r) ==
    /\ Len(q) <= Len(r)
    /\ \A i \in 1..Len(q) : q[i] = r[Len(r) - Len(q) + i]

\* C18: a push is delivered once to every listener subscribed when it
\* arrives and to no other, whichever listener throws; what a subscribed
\* listener received is, in order, the pushes that arrived since it
\* subscribed.
C18_PushDeliveredOnceInOrder ==
    [][/\ pushes' # pushes =>
             \A l \in Listeners :
                 received'[l] = IF l \in Range(stateListeners)
                                THEN Append(received[l], Last(pushes'))
                                ELSE received[l]
       /\ \A l \in Listeners \cap Range(stateListeners') :
             IsSuffix(received'[l], pushes')
      ]_vars

C18_Witness ==
    /\ Len(stateListeners) >= 2
    /\ threw = stateListeners[1]
    /\ \E l \in Listeners :
          /\ l = stateListeners[2]
          /\ Len(received[l]) = 2 /\ received[l] = pushes

\* ---- C19
\* C19: getState() is null before the first push and the last snapshot
\* received afterwards, and inside a listener's call it already is the
\* snapshot the listener is called with.
C19_CacheIsLatest ==
    /\ getState = IF pushes = <<>> THEN 0 ELSE Last(pushes)
    /\ \A l \in Listeners :
          received[l] # <<>> => observed[l] = Last(received[l])

C19_Witness ==
    /\ Len(pushes) = 2 /\ pushes[1] # pushes[2]
    /\ getState = pushes[2]
    /\ \E l \in Listeners : Len(received[l]) = 2 /\ observed[l] = pushes[2]

\* ---- C20
\* C20: a waitForCondition call whose predicate holds for the cached
\* snapshot resolves with that snapshot in the call itself, with no push,
\* and registers neither a state listener nor a timer.
C20_ImmediateCondition ==
    [][\A w \in Waits :
          (/\ condFuture[w] = "idle" /\ condFuture'[w] # "idle"
           /\ getState # 0 /\ getState \in predicate'[w])
          => /\ condFuture'[w] = "resolved"
             /\ condValue'[w] = getState
             /\ stateListeners' = stateListeners
             /\ ~condTimer'[w]
             /\ pushes' = pushes
      ]_vars

C20_Witness ==
    \E w \in Waits :
        /\ condPath[w] = "immediate"
        /\ condFuture[w] = "resolved"
        /\ condValue[w] = getState /\ getState \in predicate[w]
        /\ -w \notin Range(stateListeners) /\ ~condTimer[w]

\* ---- C21
\* C21: a waitForCondition call that took the listening path stays waiting,
\* with its listener and its timer, until the first push that satisfies
\* its predicate resolves it with that push, or its timer rejects it; once
\* settled it never changes, its listener is gone and its timer is not
\* pending.
C21_DeferredCondition ==
    [][\A w \in Waits :
          /\ condFuture[w] = "waiting" =>
                /\ -w \in Range(stateListeners) /\ condTimer[w]
                /\ pushes' # pushes =>
                      IF Last(pushes') \in predicate[w]
                      THEN /\ condFuture'[w] = "resolved"
                           /\ condValue'[w] = Last(pushes')
                      ELSE condFuture'[w] = "waiting"
                /\ condFuture'[w] = "rejected" => condTimer[w] /\ ~condTimer'[w]
                /\ condFuture'[w] = "resolved" => pushes' # pushes
          /\ condFuture[w] \in {"resolved", "rejected"} =>
                /\ condFuture'[w] = condFuture[w]
                /\ condValue'[w] = condValue[w]
          /\ condFuture'[w] \in {"resolved", "rejected"} =>
                /\ -w \notin Range(stateListeners')
                /\ ~condTimer'[w]
      ]_vars

C21_Witness ==
    \E w \in Waits :
        /\ condPath[w] = "listening" /\ condFuture[w] = "resolved"
        /\ Len(pushes) = 2 /\ pushes[1] \notin predicate[w]
        /\ condValue[w] = pushes[2]
        /\ -w \notin Range(stateListeners) /\ ~condTimer[w]

\* ---- C30
\* C30 (as stated): the tick of the cached snapshot never decreases.
C30_TickMonotonic ==
    [][(getState # 0 /\ getState' # 0) => getState' >= getState]_vars

\* ---------------------------------------------------------------- C22
\* the harness has left its loop because of a flag, the routine unfinished
Aborted == phase = "ended" /\ script = "running"

Outcomes == {"success", "stall", "timeout", "error"}

\* C22: whatever the routine does, also if it never completes, an execution
\* that entered the supervision loop is not in it later than one poll
\* interval after the time limit (past the limit the flag is set and the next
\* poll is due, before which the clock does not advance), and it leaves the
\* loop with an outcome of success, stall, timeout or error.
C22_EndsByTimeLimit ==
    /\ phase = "supervising" =>
          /\ now <= timeLimit + pollInterval
          /\ now > timeLimit => timeLimitReached /\ "poll" \in due
    /\ phase = "ended" /\ script # "notStarted" =>
          /\ runOutcome \in Outcomes
          /\ now <= timeLimit + pollInterval

C22_Witness ==
    /\ Aborted
    /\ runOutcome = "timeout"
    /\ now = timeLimit + pollInterval
    /\ setOutcomeCalls = 1

\* ---------------------------------------------------------------- C23
\* the outcome the harness records for a condition
outcomeOf(c) ==
    CASE c = "done"      -> "success"
      [] c = "stall"     -> "stall"
      [] c = "timeLimit" -> "timeout"
      [] OTHER           -> "error"

\* C23 (as stated): of the completion of the routine and the four abort
\* conditions, the one that arose first determines the outcome.
C23_FirstConditionWins ==
    phase = "ended" /\ script \in {"running", "done"} =>
        runOutcome = outcomeOf(IF occurred = <<>> THEN "done"
                               ELSE Head(occurred))

\* ---------------------------------------------------------------- C24
\* C24 (as stated): pushes with new ticks at a constant position and no
\* progress mark for longer than a stall threshold that is shorter than the
\* time limit end the run as a stall, before the time limit.
C24_StallBeforeLimit ==
    Aborted /\ steady /\ now > stallTimeout /\ stallTimeout < timeLimit =>
        runOutcome = "stall" /\ now <= timeLimit

\* C24 (amended): the same when the stall threshold plus one interval of the
\* stall check is shorter than the time limit.
C24_StallWhenCheckFits ==
    Aborted /\ steady /\ now > stallTimeout
            /\ stallTimeout + stallCheckInterval < timeLimit =>
        runOutcome = "stall" /\ now <= timeLimit

C24_Witness ==
    /\ Aborted /\ steady /\ now > stallTimeout
    /\ stallTimeout + stallCheckInterval < timeLimit
    /\ runOutcome = "stall"
    /\ playerPos = lastPlayerPos /\ lastTick # 0

\* ---------------------------------------------------------------- C25
\* C25 (as stated): when every push is at another position than the push
\* before it, the run never ends as a stall.
C25_WalkingNeverStalls ==
    Aborted /\ walking => runOutcome # "stall"

\* ---------------------------------------------------------------- C26
\* C26 (as stated): when the tick stops advancing while the connection is
\* reported connected, the run does not end as a stall, whatever the stall
\* threshold.
C26_FreezeNeverStall ==
    Aborted /\ frozen => runOutcome # "stall"

\* ---------------------------------------------------------------- C27
\* C27 (as stated): an execution that has ended has set the outcome of its
\* run record once and stopped the run record once.
C27_OutcomeOnce ==
    phase = "ended" =>
        /\ setOutcomeCalls = 1
        /\ stopRunCalls = 1
        /\ runOutcome \in Outcomes

\* ---------------------------------------------------------------- C28
\* C28 (as stated): when the harness aborts while the routine is suspended,
\* the typed error of the abort is raised into the routine.
C28_AbortRaisedInRoutine ==
    Aborted => raisedInRoutine \in {"StallError", "TimeoutError",
                                    "DisconnectError"}

\* ---------------------------------------------------------------- C29
\* the total count of the slots of an inventory that hold `name`
RECURSIVE total(_, _)
total(inventory, name) ==
    IF inventory = <<>> THEN 0
    ELSE (IF Head(inventory)[1] = name THEN Head(inventory)[2] ELSE 0)
         + total(Tail(inventory), name)

\* the entries of a list of the delta that are about `name`
entriesOf(list, name) == SelectSeq(list, LAMBDA e : e[1] = name)

\* C29: after computeStateDelta(prev, curr), for every item name: if its
\* total count increased, itemsGained has one entry for it, with the
\* difference, and itemsLost none; if it decreased, itemsLost has one entry
\* for it, with the difference, and itemsGained none; if it is unchanged it
\* is in neither list.  {logs:3} against {logs:0, cooked fish:3} gives
\* itemsLost = [{logs,3}] and itemsGained = [{cooked fish,3}].
C29_DeltaByName ==
    deltaComputed =>
        /\ \A name \in ItemNames :
              LET before == total(prevInventory, name)
                  after  == total(currInventory, name)
              IN  /\ entriesOf(itemsGained, name) =
                        IF after > before THEN <<<<name, after - before>>>>
                        ELSE <<>>
                  /\ entriesOf(itemsLost, name) =
                        IF before > after THEN <<<<name, before - after>>>>
                        ELSE <<>>
        /\ (/\ prevInventory = <<<<"logs", 3>>>>
            /\ currInventory = <<<<"logs", 0>>, <<"cooked fish", 3>>>>) =>
              /\ itemsLost = <<<<"logs", 3>>>>
              /\ itemsGained = <<<<"cooked fish", 3>>>>

C29_Witness ==
    /\ deltaComputed
    /\ prevInventory = <<<<"logs", 1>>, <<"logs", 2>>>>
    /\ currInventory = <<<<"logs", 0>>, <<"cooked fish", 3>>>>
    /\ itemsLost = <<<<"logs", 3>>>>
    /\ itemsGained = <<<<"cooked fish", 3>>>>

\* ---------------------------------------------------------------- C31
\* C31 (as stated): the close event of a socket that is not the session's
\* socket any more, while the session has a new one, leaves the socket
\* reference, the connect promise, the pending actions and the reconnect
\* timers as they are.
C31_StaleCloseHarmless ==
    [][\A s \in Sockets :
          (/\ readyState[s] # "CLOSED" /\ readyState'[s] = "CLOSED"
           /\ ws # 0 /\ ws # s)
              => /\ ws' = ws
                 /\ connectPromise' = connectPromise
                 /\ pendingActions' = pendingActions
                 /\ reconnectTimer' = reconnectTimer
                 /\ orphanTimers' = orphanTimers]_vars

\* ---------------------------------------------------------------- C32
\* C32 (as stated): isConnected() is true only in state 'connected', an
\* action is registered only in state 'connected', and in state 'connected'
\* the session holds an open socket.
C32_ConnectedMeansAcknowledged ==
    /\ isConnected => connectionState = "connected"
    /\ pendingActions # <<>> => connectionState = "connected"
    /\ connectionState = "connected" => isConnected

\* ---------------------------------------------------------------- C33
\* the reconnect timers that are pending: the one whose handle the session
\* holds and those whose handle was overwritten
ReconnectTimers == (IF reconnectTimer THEN 1 ELSE 0) + orphanTimers

\* C33 (as stated): at most one reconnect timer is pending, and none after
\* disconnect() until the next connect().
C33_SingleReconnectTimer ==
    /\ ReconnectTimers <= 1
    /\ intentionalDisconnect => ReconnectTimers = 0

\* ---------------------------------------------------------------- C34
\* the promises, the pending map and the deadline timers
Settlement == <<pendingActions, future, outcome, deadline, resolveCalls,
                rejectCalls>>

\* C34: an sdk_error with the id of a pending action rejects that action
\* with the server's error, clears its deadline timer, removes its entry and
\* touches no other action; an sdk_error without an id or with an id that is
\* not pending, and a result whose id is not pending, change no promise, no
\* entry and no deadline timer.
C34_ServerError ==
    [][/\ \A s \in Sockets, id \in 0..MaxActions :
             OnSdkError(s, id) =>
                 IF id \in DOMAIN pendingActions
                 THEN LET c == pendingActions[id] IN
                      /\ future[c] = "pending"
                      /\ future'[c] = "rejected"
                      /\ outcome'[c] = "server error"
                      /\ rejectCalls'[c] = rejectCalls[c] + 1
                      /\ ~deadline'[c]
                      /\ pendingActions' = without(pendingActions, id)
                      /\ \A d \in Calls \ {c} :
                            /\ future'[d] = future[d]
                            /\ outcome'[d] = outcome[d]
                            /\ deadline'[d] = deadline[d]
                            /\ rejectCalls'[d] = rejectCalls[d]
                      /\ resolveCalls' = resolveCalls
                 ELSE UNCHANGED Settlement
       /\ \A s \in Sockets, id \in 1..MaxActions, r \in Results \cup {NoResult} :
             (OnActionResult(s, id, r) /\ id \notin DOMAIN pendingActions)
                 => UNCHANGED Settlement
      ]_vars

C34_Witness ==
    \E c \in Calls :
        /\ outcome[c] = "server error"
        /\ future[c] = "rejected"
        /\ ~deadline[c]
        /\ actionId[c] \notin DOMAIN pendingActions
        /\ \E d \in Calls \ {c} : future[d] = "pending" /\ deadline[d]

\* ---------------------------------------------------------------- C35
\* C35 (as stated): a run ends as 'success' only if the routine returned,
\* as 'stall' only if the stall monitor fired, as 'timeout' only if the time
\* limit elapsed, and as 'error' whenever the routine threw.
C35_OutcomeNamesCause ==
    phase = "ended" =>
        /\ runOutcome = "success" => script = "done"
        /\ runOutcome = "stall" => stallDetected
        /\ runOutcome = "timeout" => timeLimitReached
        /\ script = "threw" => runOutcome = "error"

\* ---------------------------------------------------------------- C37
\* C37: when an execution has ended, the stall-check, health-check and
\* snapshot intervals and the time-limit timer are stopped and none of their
\* callbacks is due, both SDK subscriptions are removed and the console
\* functions are restored.
C37_MonitorsStopped ==
    phase = "ended" =>
        /\ active = {}
        /\ due = {}
        /\ subscribed = {}
        /\ ~consoleCaptured

C37_Witness ==
    /\ Aborted
    /\ runOutcome = "error" /\ outcomeDetail = "Disconnect"
    /\ now >= stallCheckInterval
    /\ stopRunCalls = 1
    /\ active = {} /\ subscribed = {} /\ ~consoleCaptured

\* ---------------------------------------------------------------- C36
\* the number of calls so far that returned
RECURSIVE returnedIn(_)
returnedIn(calls) ==
    IF calls = <<>> THEN 0
    ELSE (IF Head(calls)[2] = "returned" THEN 1 ELSE 0) + returnedIn(Tail(calls))

\* C36: the action log has one record for every call of the instrumented
\* bot that has settled, in order, with the formatted argument, the result
\* or the message of the error, and the time the call took; the routine gets
\* the result of a call that returned and the thrown value of a call that
\* threw; progress is marked once for every call that returned and not for
\* one that threw.
C36_CallsRecordedOnce ==
    /\ Len(actionLog) = Len(botCalls)
    /\ Len(delivered) = Len(botCalls)
    /\ \A i \in DOMAIN botCalls :
          LET call == botCalls[i] IN
          /\ actionLog[i][1] = formatArgs(call[1])
          /\ actionLog[i][2] = IF call[2] = "returned"
                               THEN <<"result", call[3]>>
                               ELSE <<"error", errorText(call[3])>>
          /\ actionLog[i][3] = call[5] - call[4]
          /\ delivered[i] = <<call[2], call[3]>>
    /\ progressMarks = returnedIn(botCalls)

C36_Witness ==
    /\ Len(botCalls) = 2
    /\ botCalls[1][2] = "threw" /\ botCalls[2][2] = "returned"
    /\ actionLog[1][2][1] = "error" /\ actionLog[2][2][1] = "result"
    /\ actionLog[2][3] > 0
    /\ progressMarks = 1

\* ---------------------------------------------------------------- C38
\* something failed in the run: the connection set-up, or the routine threw
\* or exceeded the timeout
RunFailed == setupFailed \/ scriptEnd[1] \in {"threw", "timeout"}

\* C38 (as stated): when runScript is done it has not rejected; it returned
\* success false with an error exactly if something failed, and else
\* success true with the routine's result; the routine was started only
\* with a connection, and a supplied connection was not disconnected.
C38_RunnerNeverRejects ==
    runnerPhase = "done" =>
        /\ ~runnerRejected
        /\ runResult.success = ~RunFailed
        /\ truthy(runResult.error) = RunFailed
        /\ ~RunFailed => runResult.result = scriptEnd[2]
        /\ setupFailed => ~scriptStarted
        /\ optConnection => ~sdkDisconnected

\* ---------------------------------------------------------------- C39
\* the sequence s without the node n
RECURSIVE seqWithout(_, _)
seqWithout(s, n) ==
    IF s = <<>> THEN <<>>
    ELSE IF Head(s) = n THEN seqWithout(Tail(s), n)
    ELSE <<Head(s)>> \o seqWithout(Tail(s), n)

\* the nodes the hash table holds
Cached == {n \in Nodes : hashtable[n] # null}

\* C39: after a put into a full cache the history is the one before without
\* its oldest entry and with the value put as the newest, and the evicted
\* node has left the hash table; after a get that found a node the history
\* is the one before with that node moved to the newest place; the cache
\* never holds more than capacity entries, in the history or in the table.
C39_EvictsLeastRecentlyUsed ==
    /\ Len(history) <= capacity
    /\ Cached = {history[i] : i \in 1..Len(history)}
    /\ (lastOp.op = "put" /\ lastOp.availableBefore = 0 /\ lastOp.before # <<>>) =>
          /\ history = seqWithout(Tail(lastOp.before), lastOp.node)
                          \o <<lastOp.node>>
          /\ Head(lastOp.before) # lastOp.node =>
                Head(lastOp.before) \notin Cached
    /\ (lastOp.op = "get" /\ lastOp.node # null) =>
          /\ history = seqWithout(lastOp.before, lastOp.node) \o <<lastOp.node>>
          /\ hashtable[lastOp.node] = lastOp.key

\* a put of a new node into a full cache that holds capacity entries, at
\* least two
C39_Witness ==
    /\ lastOp.op = "put" /\ lastOp.availableBefore = 0
    /\ capacity >= 2 /\ Len(lastOp.before) = capacity
    /\ lastOp.node \notin {lastOp.before[i] : i \in 1..Len(lastOp.before)}
    /\ Len(history) = capacity

\* ---------------------------------------------------------------- C40
\* C40 (as stated): after clear() the history list is empty, the hash table
\* holds no node and available equals capacity.
C40_ClearEmpties ==
    lastOp.op = "clear" =>
        /\ history = <<>>
        /\ Cached = {}
        /\ available = capacity

TypeOK ==
    /\ ws \in 0..MaxSockets /\ connectPromise \in 0..MaxSockets
    /\ connectionState \in ConnectionState
    /\ reconnectAttempt \in 0..MaxAttempt
    /\ state \in 0..MaxTick
    /\ Len(pushes) <= MaxPushes
    /\ \A l \in Listeners : heard[l][1] \in ConnectionState \cup {"none"}
    /\ \A w \in Waits : condFuture[w] \in {"idle", "waiting", "resolved",
                                             "rejected"}
    /\ \A c \in Calls : future[c] \in {"idle", "waiting", "pending",
                                       "resolved", "rejected"}

====
